---- MODULE Spec2Model ----
(***************************************************************************)
(* A model of the server-provisioning core of mrpack2server-files-gen      *)
(* (src/app.py): the per-request log channel (push_log, stream_logs,       *)
(* delayed_cleanup), request-id validation, the downloader, the installer  *)
(* supervisor, the loader provisioners and the parallel mod-download batch.*)
(*                                                                         *)
(* Each subsystem has its own next-state relation and specification over   *)
(* the shared variables; the variables of the other subsystems stay at     *)
(* their initial values.                                                   *)
(***************************************************************************)
EXTENDS Integers, Sequences, FiniteSets, TLC

(***************************************************************************)
(* Bounds of the model.                                                    *)
(***************************************************************************)
\* Lines each producer pushes.
LinesPerProducer == 2
\* Lines the second producer pushes in the specification of the whole channel.
LinesSecondProducer == 1
\* Stands for the literal 10000 of push_log (src/app.py:2144), scaled down so
\* that the truncation happens within the bounds.
LogCap == 2
\* Stands for max_iterations = 36000 of stream_logs.generate (src/app.py:2194).
MaxIterations == 1
\* Stands for the length limit 100 of validate_request_id (src/app.py:2259).
MaxRequestIdLen == 3
\* Seconds that pass in one step of the clock, and the last instant modelled.
TickSeconds == 150
MaxTime == 1200
\* Lines the installer's child process writes at most.
MaxChildLines == 2
\* Files an installer run leaves in the server directory at most.
MaxProduced == 3
\* Largest value of the `retries` argument of download_to_file.
MaxRetries == 3
\* Stands for max_size (MAX_UPLOAD_SIZE, src/app.py:45), counted in chunks.
MaxSize == 2
\* Downloads queued in one parallel batch at most.
MaxTasks == 3
\* Stands for FORGE_CACHE_MAX_SIZE (src/app.py:194), in size units.
CacheMaxSize == 3
\* Stands for FORGE_CACHE_MAX_AGE (src/app.py:193), in clock steps.
CacheMaxAge == 2
\* Chunks of a complete loader artifact, and the last instant of the artifact clock.
ArtSize == 2
\* Entries of the index, and the worker count standing for MAX_WORKERS_DOWNLOAD (16).
MaxIndexFiles == 3
\* Builds in one answer of the metadata API.
MaxBuilds == 3
\* The last instant of the clock of the request resources.
MaxRelTime == 2
MaxWorkersDownload == 2
MaxArtTime == 3
\* Last instant of the cache clock, and the largest artifact.
MaxCacheTime == 3
MaxFileSize == 2
\* Stands for MAX_FILENAME_LENGTH (src/app.py:46); longest uploaded base name and
\* longest request id of the directory-name model.
MaxFilenameLen == 2
MaxBaseNameLen == 3
MaxNameIdLen == 2
\* Seconds per step of the cleanup clock and its last instant.
ZipTick == 100
MaxZipTime == 500
\* Stands for max_files = 100000 of build_zip_to_tempfile (src/app.py:1763), and the
\* most files a packaged directory holds.
MaxFiles == 2
MaxDirFiles == 4
\* Stands for max_size = 10 GB (src/app.py:1764), in size units.
MaxZipBytes == 4

(***************************************************************************)
(* Program constants.                                                      *)
(***************************************************************************)
DEFAULT_INSTALLER_TIMEOUT == 300
NEOFORGE_TIMEOUT == 900
NO_OUTPUT_TIMEOUT == 300
FABRIC_MAX_WAIT == 360

Producers == {"p1", "p2"}
Gen == "gen"
Cleaner == "cleanup"
None == "none"

\* An entry of a dictionary for the one request_id modelled: <<>> when the key
\* is absent, <<v>> when it maps to v.
Absent == <<>>
Entry(v) == <<v>>
Has(d) == d # Absent
Val(d) == d[1]

VARIABLES
    \* ---- log channel (src/app.py:147-149) ----
    log_locks,          \* log_locks[request_id]: Absent or Entry(lock id)
    log_buffers,        \* log_buffers[request_id]: Absent or Entry(list of lines)
    creation_lock,      \* owner of _log_buffer_creation_lock, or None
    locks,              \* locks[i]: owner of the i-th Lock() object created, or None
    ppc,                \* ppc[p]: position of producer p inside push_log
    plock,              \* plock[p]: the Lock object producer p looked up
    ptmp,               \* ptmp[p]: the slice producer p computed before assigning it
    sent,               \* sent[p]: push_log calls producer p has completed
    gpc,                \* position of the stream_logs generator
    glock,              \* the Lock object the generator looked up
    last_index,         \* generate(): last_index
    new_logs,           \* generate(): new_logs
    iteration,          \* generate(): iteration
    delivered,          \* lines yielded to the subscriber so far
    snapshot,           \* the buffer as the subscriber's first read found it
    cpc,                \* position of delayed_cleanup
    clock,              \* the Lock object delayed_cleanup looked up
    released,           \* delayed_cleanup has removed the buffer and the lock entry
    appended,           \* every line appended to a buffer, in append order
    \* ---- validate_request_id (src/app.py:2249-2262) ----
    vpc,                \* "idle", "called", "returned"
    v_request_id,       \* the argument, a sequence of characters
    v_result,           \* the pair returned: <<request_id or None, error or None>>
    \* ---- run_installer (src/app.py:2529-2603) ----
    rpc,                \* position of run_installer
    now,                \* time.time(), in seconds
    java_exists,        \* os.path.exists(java_path)
    is_neoforge,        \* "neoforge" in installer_path.lower()
    start_time,         \* run_installer: start_time
    last_output_time,   \* run_installer: last_output_time
    line,               \* run_installer: line (after strip)
    output,             \* run_installer: output
    queue,              \* the multiprocessing queue to the provisioner
    child,              \* the installer's Java process: "none", "running", "exited", "terminated"
    child_rc,           \* its exit code once exited
    child_lines,        \* lines it has written so far
    last_write,         \* when it last wrote a line (or was started)
    pipe,               \* lines written to its stdout and not yet read
    \* ---- loader provisioners (src/app.py:2606-4163) ----
    prov_state,         \* "idle", "returned" (without raising) or "raised"
    prov_loader,        \* "fabric", "forge", "neoforge", "quilt"
    prov_path,          \* the branch taken: "cache_zip", "cache_jar", "zip", "jar", "installer"
    server_dir,         \* the server directory: relative path -> content of the file
    prov_exc,           \* the exception a provisioner raised: its class, and whether its text is JSON
    sel_jar_files,      \* setup_fabric / setup_neoforge: jar_files
    sel_target_jar,     \* setup_fabric / setup_neoforge: target_jar
    \* ---- download_to_file / async_download_to_file (src/app.py:2451-2513, 1582-1616) ----
    dl_pc,              \* "idle", "loop", "returned" or "raised"
    dl_fn,              \* "download_to_file" or "async_download_to_file"
    url,                \* the kind of URL passed in
    retries,            \* the retries argument
    attempt,            \* the loop variable of range(retries)
    dest,               \* the destination file: Absent or Entry(content)
    dl_log,             \* the lines pushed to the log, in order
    dl_waits,           \* the arguments of time.sleep, in order
    dl_outcomes,        \* what ended each attempt, in order
    dl_served,          \* the body the server offered in each attempt
    dl_written,         \* chunks written to dest in the last attempt
    dl_exc,             \* the exception that reached the caller
    \* ---- parallel_download_and_copy_async / generate_server (1619-1744, 2332-2377) ----
    b_pc,               \* "idle", "gather", "counted", "copied", "provision", "success", "error500"
    tasks,              \* the queued coroutines: sequence of records
    mods_dst_dir,       \* per task, its destination file
    failed,             \* the count taken after gather
    b_cause,            \* which phase made the request end with status 500
    \* ---- the Forge artifact cache (src/app.py:191-194, 2906-2956) ----
    forge_cache,        \* _forge_cache: version -> Absent or Entry(cache_info)
    forge_cache_lock,   \* _forge_cache_lock: its owner or None
    cache_files,        \* the cache directory: version -> Absent or Entry(size on disk)
    cache_now,          \* time.time()
    spc,                \* per saver thread, its position in _save_forge_to_cache
    s_version,          \* per saver thread, the version argument
    s_is_zip,           \* per saver thread, the is_zip argument
    file_size,          \* per saver thread, its local file_size
    s_clean,            \* per saver thread: nothing touched disk or clock since the call
    last_op,            \* the operation that ended last, with what it saw and returned
    \* ---- generate_server up to the provisioner (src/app.py:2266-2412) ----
    gs_pc,              \* "idle", "validate", "extract", "detect", "mkdir", "mods", "provision", "responded"
    upload,             \* the uploaded file: present, its kind of name, a valid archive or not
    deps,               \* index_data["dependencies"]: the set of its keys
    loader_type,        \* what detect_loader gave
    response,           \* the HTTP answer: status and error text
    server_dir_created, \* os.makedirs(server_dir/mods) has run
    downloads_started,  \* a mod or loader download has been started
    \* ---- the server directory name (src/app.py:2316-2328) ----
    n_pc,               \* how many of the two requests have been named
    req1,               \* first request: base_name, request_id, safe_name
    req2,               \* second request
    dir1,               \* server_dir_name of the first request
    dir2,               \* server_dir_name of the second request
    \* ---- increment_generated_server_count (src/app.py:513-760, 2378-2380) ----
    kpc,                \* per caller, its position
    generated_server_lock,  \* per worker process, the owner of its lock
    count_file,         \* generated_server_count.txt: Absent or Entry(content)
    file_lock,          \* the portalocker lock on the file: its owner or None
    current_count,      \* per caller, the local current_count
    new_count,          \* per caller, the local new_count
    \* ---- download_zip and delayed_cleanup (src/app.py:1814-1896, 1119-1154) ----
    zpc,                \* per download request, its position
    zip_path,           \* per download request, the local zip_path
    download_status,    \* download_status[request_id]: Absent or Entry(record)
    zip_files,          \* the ZIP files that exist in the temp directory
    server_dir_exists,  \* the server directory of the request exists
    cleanups,           \* per download request, the delayed_cleanup thread it started
    z_now,              \* time.time(), in seconds
    responses,          \* the download responses produced: by whom, status, when
    tracked,            \* request_id in log_locks
    deleted_at,         \* when ZIP or directory were first deleted
    \* ---- build_zip_to_tempfile (src/app.py:1747-1810) ----
    pk_pc,              \* position of build_zip_to_tempfile
    pk_dir_exists,      \* os.path.exists(server_dir)
    pk_files,           \* the files of server_dir in os.walk order: kind and size
    pk_i,               \* index of the file the loop is at
    file_count,         \* the local file_count
    total_size,         \* the local total_size
    temp_zip,           \* the temp file exists on disk
    zf,                 \* number of members written to the archive
    pk_result,          \* "none", "returned", "ValueError" or "RuntimeError"
    \* ---- the users of the locks (src/app.py:149-151, 404) ----
    lk_prog,            \* per thread, the lock operations of the path it runs
    lk_pc,              \* per thread, the index of its next operation
    lk_owner,           \* per lock, the thread that holds it, or None
    \* ---- the artifact files of the cache directory (src/app.py:3193-3258, 3947-4012) ----
    a_pc,               \* per request, its position in setup_forge / setup_quilt
    a_loader,           \* per request, the loader it provisions
    a_dtc,              \* per request, the local download_to_cache
    a_used,             \* per request, the file it validated, extracted or copied
    a_result,           \* per request, "none", "ok" or "error"
    art_files,          \* per loader, the file forge-<version>.zip / quilt-<version>.zip
    art_meta,           \* _forge_cache[version]: Absent or Entry(cache_info)
    a_now,              \* time.time(), in clock steps
    \* ---- the mod downloads of one request (src/app.py:1619-1682) ----
    fan_pc,             \* position in parallel_download_and_copy_async
    fan_files,          \* index_data['files']
    fan_i,              \* the entry the for loop is at
    fan_tasks,          \* tasks, with each coroutine's position
    fan_dir,            \* mods_dst_dir: per file name, Absent or Entry(writer's file)
    \* ---- the provisioner waiting for run_installer (src/app.py:2647-2694) ----
    w_pc,               \* "w_idle", "w_wait", "w_result" or "w_raised"
    w_start,            \* start_time of the wait loop
    \* ---- the build selection of setup_quilt (src/app.py:3822-3869) ----
    qb_pc,              \* "idle", "listed", "selected" or "failed"
    builds_list,        \* the builds the metadata API returned
    qb_build,           \* build, or NoBuild
    \* ---- the stages of one generate_server run (src/app.py:2332-2404) ----
    pl_pc,              \* the stage generate_server is at
    pl_loader,          \* loader_type
    pl_failed_mods,     \* mod downloads that failed inside the download phase
    stages_started,     \* the stages that have started
    stages_done,        \* the stages that have returned without an exception
    stage_failed,       \* the stage whose exception ended the run, or None
    pl_ready,           \* download_status[request_id]["ready"]
    pl_status,          \* the HTTP status answered, 0 while there is none
    \* ---- what a request holds until it is cleaned up (src/app.py:1119-1185) ----
    rel_state,          \* per request: "none", "running", "ready", "failed", "downloaded", "cleaned"
    rel_dir,            \* per request: its server directory exists
    rel_buf,            \* per request: log_buffers[request_id], Absent or Entry(length)
    rel_lock,           \* per request: request_id in log_locks
    rel_status,         \* per request: request_id in download_status
    rel_due,            \* per request: when its delayed_cleanup wakes, or Missing
    rel_now,            \* the time, in cleanup delays
    \* ---- save_server_count of a worker that shuts down (src/app.py:765-819) ----
    sv_pc,              \* "idle", "opened" or "done"
    sv_count,           \* the generated_server_count the worker holds in memory
    \* ---- the directory search of download_zip (src/app.py:1820-1846) ----
    dz_request_id,      \* the request_id of the download
    dz_listing,         \* os.listdir(PERSISTENT_TEMP_ROOT)
    dz_created,         \* the directories generate_server made for that request_id
    dz_server_dir       \* server_dir, <<>> for None

logvars == <<log_locks, log_buffers, creation_lock, locks, ppc, plock, ptmp, sent,
             gpc, glock, last_index, new_logs, iteration, delivered, snapshot,
             cpc, clock, released, appended>>

valvars == <<vpc, v_request_id, v_result>>

insvars == <<rpc, now, java_exists, is_neoforge, start_time, last_output_time, line,
             output, queue, child, child_rc, child_lines, last_write, pipe>>

provvars == <<prov_state, prov_loader, prov_path, server_dir, prov_exc, sel_jar_files,
             sel_target_jar>>

dlvars == <<dl_pc, dl_fn, url, retries, attempt, dest, dl_log, dl_waits, dl_outcomes,
           dl_served, dl_written, dl_exc>>

batvars == <<b_pc, tasks, mods_dst_dir, failed, b_cause>>

cachevars == <<forge_cache, forge_cache_lock, cache_files, cache_now, spc, s_version,
              s_is_zip, file_size, s_clean, last_op>>

gsvars == <<gs_pc, upload, deps, loader_type, response, server_dir_created,
           downloads_started>>

namevars == <<n_pc, req1, req2, dir1, dir2>>

zipvars == <<zpc, zip_path, download_status, zip_files, server_dir_exists, cleanups, z_now,
            responses, tracked, deleted_at>>

cntvars == <<kpc, generated_server_lock, count_file, file_lock, current_count, new_count>>

midvars == <<cachevars, gsvars, namevars, zipvars, cntvars>>

packvars == <<pk_pc, pk_dir_exists, pk_files, pk_i, file_count, total_size, temp_zip,
             zf, pk_result>>

lkvars == <<lk_prog, lk_pc, lk_owner>>

artvars == <<a_pc, a_loader, a_dtc, a_used, a_result, art_files, art_meta, a_now>>

fanvars == <<fan_pc, fan_files, fan_i, fan_tasks, fan_dir>>

supvars == <<w_pc, w_start>>

qbvars == <<qb_pc, builds_list, qb_build>>

plvars == <<pl_pc, pl_loader, pl_failed_mods, stages_started, stages_done, stage_failed,
           pl_ready, pl_status>>

relvars == <<rel_state, rel_dir, rel_buf, rel_lock, rel_status, rel_due, rel_now>>

savevars == <<sv_pc, sv_count>>

findvars == <<dz_request_id, dz_listing, dz_created, dz_server_dir>>

lastvars == <<fanvars, supvars, qbvars, plvars, relvars, savevars, findvars>>

latevars == <<packvars, lkvars, artvars, lastvars>>

morevars == <<midvars, latevars>>

oldvars == <<logvars, valvars, insvars, provvars, dlvars, batvars>>

vars == <<logvars, valvars, insvars, provvars, dlvars, batvars, morevars>>

(***************************************************************************)
(* Lock objects.  log_locks and log_buffers are defaultdicts                *)
(* (src/app.py:147-148): reading a missing key creates the entry.          *)
(***************************************************************************)
\* locks after one more Lock() was constructed; its id is Len(locks) + 1.
NewLock(ls) == Append(ls, None)

\* d[request_id] on the defaultdict(Lock): the entry after the read.
LockGetItem(d, ls) == IF Has(d) THEN d ELSE Entry(Len(ls) + 1)
LocksAfterGetItem(d, ls) == IF Has(d) THEN ls ELSE NewLock(ls)

\* d[request_id] on the defaultdict(list): the entry after the read.
BufGetItem(d) == IF Has(d) THEN d ELSE Entry(<<>>)

\* lst[-n:]
LastN(lst, n) == IF Len(lst) <= n THEN lst ELSE SubSeq(lst, Len(lst) - n + 1, Len(lst))

\* A poll that forgets its offset and takes the whole list.
From_whole(lst, i) == lst

\* lst[i:] (0-based i)
From(lst, i) == IF i >= Len(lst) THEN <<>> ELSE SubSeq(lst, i + 1, Len(lst))

InitLog ==
    /\ log_locks = Absent
    /\ log_buffers = Absent
    /\ creation_lock = None
    /\ locks = <<>>
    /\ ppc = [p \in Producers |-> "idle"]
    /\ plock = [p \in Producers |-> 0]
    /\ ptmp = [p \in Producers |-> <<>>]
    /\ sent = [p \in Producers |-> 0]
    /\ gpc = "g_idle"
    /\ glock = 0
    /\ last_index = 0
    /\ new_logs = <<>>
    /\ iteration = 0
    /\ delivered = <<>>
    /\ snapshot = <<>>
    /\ cpc = "c_idle"
    /\ clock = 0
    /\ released = FALSE
    /\ appended = <<>>

InitInstaller ==
    /\ rpc = "r_idle"
    /\ now = 0
    /\ java_exists = FALSE
    /\ is_neoforge = FALSE
    /\ start_time = 0
    /\ last_output_time = 0
    /\ line = ""
    /\ output = <<>>
    /\ queue = <<>>
    /\ child = "none"
    /\ child_rc = 0
    /\ child_lines = 0
    /\ last_write = 0
    /\ pipe = <<>>

InitProv ==
    /\ prov_state = "idle"
    /\ prov_loader = None
    /\ prov_path = None
    /\ server_dir = <<>>
    /\ prov_exc = [class |-> None, json |-> FALSE]
    /\ sel_jar_files = <<>>
    /\ sel_target_jar = None

InitVal ==
    /\ vpc = "idle"
    /\ v_request_id = <<>>
    /\ v_result = <<None, None>>

(***************************************************************************)
(* push_log (src/app.py:2120-2156), one action per statement that reads or *)
(* writes the shared dictionaries or a lock.                               *)
(***************************************************************************)
punch == <<gpc, glock, last_index, new_logs, iteration, delivered, snapshot, cpc, clock,
           released, valvars, insvars, provvars, dlvars, batvars, morevars>>

\* The line the producer is pushing.
CurLine(p) == <<p, sent[p] + 1>>

\* push_log is entered (a producer pushes at most LinesPerProducer lines).
push_log_call(p) ==
    /\ ppc[p] = "idle"
    /\ sent[p] < LinesPerProducer
    /\ ppc' = [ppc EXCEPT ![p] = "check"]
    /\ UNCHANGED <<log_locks, log_buffers, creation_lock, locks, plock, ptmp, sent, appended>>
    /\ UNCHANGED punch

\* 2131: if request_id not in log_locks
push_log_check(p) ==
    /\ ppc[p] = "check"
    /\ ppc' = [ppc EXCEPT ![p] = IF Has(log_locks) THEN "lookup" ELSE "acq_creation"]
    /\ UNCHANGED <<log_locks, log_buffers, creation_lock, locks, plock, ptmp, sent, appended>>
    /\ UNCHANGED punch

\* 2132: with _log_buffer_creation_lock
push_log_acq_creation(p) ==
    /\ ppc[p] = "acq_creation"
    /\ creation_lock = None
    /\ creation_lock' = p
    /\ ppc' = [ppc EXCEPT ![p] = "dcheck"]
    /\ UNCHANGED <<log_locks, log_buffers, locks, plock, ptmp, sent, appended>>
    /\ UNCHANGED punch

\* 2134: if request_id not in log_locks (the double check)
push_log_dcheck(p) ==
    /\ ppc[p] = "dcheck"
    /\ ppc' = [ppc EXCEPT ![p] = IF Has(log_locks) THEN "rel_creation" ELSE "mklock"]
    /\ UNCHANGED <<log_locks, log_buffers, creation_lock, locks, plock, ptmp, sent, appended>>
    /\ UNCHANGED punch

\* 2135: log_locks[request_id] = Lock()
push_log_mklock(p) ==
    /\ ppc[p] = "mklock"
    /\ locks' = NewLock(locks)
    /\ log_locks' = Entry(Len(locks) + 1)
    /\ ppc' = [ppc EXCEPT ![p] = "mkbuf"]
    /\ UNCHANGED <<log_buffers, creation_lock, plock, ptmp, sent, appended>>
    /\ UNCHANGED punch

\* 2136: log_buffers[request_id] = []
push_log_mkbuf(p) ==
    /\ ppc[p] = "mkbuf"
    /\ log_buffers' = Entry(<<>>)
    /\ ppc' = [ppc EXCEPT ![p] = "rel_creation"]
    /\ UNCHANGED <<log_locks, creation_lock, locks, plock, ptmp, sent, appended>>
    /\ UNCHANGED punch

\* 2132: leaving the with block
push_log_rel_creation(p) ==
    /\ ppc[p] = "rel_creation"
    /\ creation_lock' = None
    /\ ppc' = [ppc EXCEPT ![p] = "lookup"]
    /\ UNCHANGED <<log_locks, log_buffers, locks, plock, ptmp, sent, appended>>
    /\ UNCHANGED punch

\* 2139: log_locks[request_id] (the defaultdict creates a missing entry)
push_log_lookup(p) ==
    /\ ppc[p] = "lookup"
    /\ log_locks' = LockGetItem(log_locks, locks)
    /\ locks' = LocksAfterGetItem(log_locks, locks)
    /\ plock' = [plock EXCEPT ![p] = Val(log_locks')]
    /\ ppc' = [ppc EXCEPT ![p] = "acquire"]
    /\ UNCHANGED <<log_buffers, creation_lock, ptmp, sent, appended>>
    /\ UNCHANGED punch

\* 2139: with <that lock>
push_log_acquire(p) ==
    /\ ppc[p] = "acquire"
    /\ locks[plock[p]] = None
    /\ locks' = [locks EXCEPT ![plock[p]] = p]
    /\ ppc' = [ppc EXCEPT ![p] = "inbuf"]
    /\ UNCHANGED <<log_locks, log_buffers, creation_lock, plock, ptmp, sent, appended>>
    /\ UNCHANGED punch

\* 2140: if request_id not in log_buffers
push_log_inbuf(p) ==
    /\ ppc[p] = "inbuf"
    /\ ppc' = [ppc EXCEPT ![p] = IF Has(log_buffers) THEN "append" ELSE "setbuf"]
    /\ UNCHANGED <<log_locks, log_buffers, creation_lock, locks, plock, ptmp, sent, appended>>
    /\ UNCHANGED punch

\* 2141: log_buffers[request_id] = []
push_log_setbuf(p) ==
    /\ ppc[p] = "setbuf"
    /\ log_buffers' = Entry(<<>>)
    /\ ppc' = [ppc EXCEPT ![p] = "append"]
    /\ UNCHANGED <<log_locks, creation_lock, locks, plock, ptmp, sent, appended>>
    /\ UNCHANGED punch

\* 2142: log_buffers[request_id].append(log_line)
push_log_append(p) ==
    /\ ppc[p] = "append"
    /\ log_buffers' = Entry(Append(Val(BufGetItem(log_buffers)), CurLine(p)))
    /\ appended' = Append(appended, CurLine(p))
    /\ ppc' = [ppc EXCEPT ![p] = "lencheck"]
    /\ UNCHANGED <<log_locks, creation_lock, locks, plock, ptmp, sent>>
    /\ UNCHANGED punch

\* 2144: if len(log_buffers[request_id]) > 10000
push_log_lencheck(p) ==
    /\ ppc[p] = "lencheck"
    /\ log_buffers' = BufGetItem(log_buffers)
    /\ ppc' = [ppc EXCEPT ![p] =
                 IF Len(Val(log_buffers')) > LogCap THEN "slice" ELSE "release"]
    /\ UNCHANGED <<log_locks, creation_lock, locks, plock, ptmp, sent, appended>>
    /\ UNCHANGED punch

\* 2145, right-hand side: log_buffers[request_id][-10000:]
push_log_slice(p) ==
    /\ ppc[p] = "slice"
    /\ log_buffers' = BufGetItem(log_buffers)
    /\ ptmp' = [ptmp EXCEPT ![p] = LastN(Val(log_buffers'), LogCap)]
    /\ ppc' = [ppc EXCEPT ![p] = "assign"]
    /\ UNCHANGED <<log_locks, creation_lock, locks, plock, sent, appended>>
    /\ UNCHANGED punch

\* 2145, the assignment: log_buffers[request_id] = <the slice>
push_log_assign(p) ==
    /\ ppc[p] = "assign"
    /\ log_buffers' = Entry(ptmp[p])
    /\ ptmp' = [ptmp EXCEPT ![p] = <<>>]
    /\ ppc' = [ppc EXCEPT ![p] = "release"]
    /\ UNCHANGED <<log_locks, creation_lock, locks, plock, sent, appended>>
    /\ UNCHANGED punch

\* 2139: leaving the with block; push_log returns
push_log_release(p) ==
    /\ ppc[p] = "release"
    /\ locks' = [locks EXCEPT ![plock[p]] = None]
    /\ plock' = [plock EXCEPT ![p] = 0]
    /\ sent' = [sent EXCEPT ![p] = @ + 1]
    /\ ppc' = [ppc EXCEPT ![p] = "idle"]
    /\ UNCHANGED <<log_locks, log_buffers, creation_lock, ptmp, appended>>
    /\ UNCHANGED punch

push_log(p) ==
    \/ push_log_call(p)
    \/ push_log_check(p)
    \/ push_log_acq_creation(p)
    \/ push_log_dcheck(p)
    \/ push_log_mklock(p)
    \/ push_log_mkbuf(p)
    \/ push_log_rel_creation(p)
    \/ push_log_lookup(p)
    \/ push_log_acquire(p)
    \/ push_log_inbuf(p)
    \/ push_log_setbuf(p)
    \/ push_log_append(p)
    \/ push_log_lencheck(p)
    \/ push_log_slice(p)
    \/ push_log_assign(p)
    \/ push_log_release(p)

NextPush == \E p \in Producers : push_log(p)

(***************************************************************************)
(* stream_logs.generate (src/app.py:2167-2235), the subscriber.            *)
(***************************************************************************)
gunch == <<creation_lock, ppc, plock, ptmp, sent, cpc, clock, released, appended, valvars,
           insvars, provvars, dlvars, batvars, morevars>>

\* The generator is started: a client subscribed to /api/logs/<request_id>.
generate_start ==
    /\ gpc = "g_idle"
    /\ gpc' = "g_chk_lock"
    /\ UNCHANGED <<log_locks, log_buffers, locks, glock, last_index, new_logs,
                   iteration, delivered, snapshot>>
    /\ UNCHANGED gunch

\* 2170: if request_id not in log_locks
generate_chk_lock ==
    /\ gpc = "g_chk_lock"
    /\ gpc' = IF Has(log_locks) THEN "g_chk_buf" ELSE "g_mklock"
    /\ UNCHANGED <<log_locks, log_buffers, locks, glock, last_index, new_logs,
                   iteration, delivered, snapshot>>
    /\ UNCHANGED gunch

\* 2171: log_locks[request_id] = Lock()   (not under the creation lock)
generate_mklock ==
    /\ gpc = "g_mklock"
    /\ locks' = NewLock(locks)
    /\ log_locks' = Entry(Len(locks) + 1)
    /\ gpc' = "g_chk_buf"
    /\ UNCHANGED <<log_buffers, glock, last_index, new_logs, iteration, delivered, snapshot>>
    /\ UNCHANGED gunch

\* 2172: if request_id not in log_buffers
generate_chk_buf ==
    /\ gpc = "g_chk_buf"
    /\ gpc' = IF Has(log_buffers) THEN "g_first_lookup" ELSE "g_init_lookup"
    /\ UNCHANGED <<log_locks, log_buffers, locks, glock, last_index, new_logs,
                   iteration, delivered, snapshot>>
    /\ UNCHANGED gunch

\* 2173, 2181, 2207: log_locks[request_id] (the defaultdict creates a missing entry)
generate_lookup(from, to) ==
    /\ gpc = from
    /\ log_locks' = LockGetItem(log_locks, locks)
    /\ locks' = LocksAfterGetItem(log_locks, locks)
    /\ glock' = Val(log_locks')
    /\ gpc' = to
    /\ UNCHANGED <<log_buffers, last_index, new_logs, iteration, delivered, snapshot>>
    /\ UNCHANGED gunch

\* 2173, 2181, 2207: with <that lock>
generate_acquire(from, to) ==
    /\ gpc = from
    /\ locks[glock] = None
    /\ locks' = [locks EXCEPT ![glock] = Gen]
    /\ gpc' = to
    /\ UNCHANGED <<log_locks, log_buffers, glock, last_index, new_logs, iteration,
                   delivered, snapshot>>
    /\ UNCHANGED gunch

\* leaving a with block
generate_release(from, to) ==
    /\ gpc = from
    /\ locks' = [locks EXCEPT ![glock] = None]
    /\ glock' = 0
    /\ gpc' = to
    /\ UNCHANGED <<log_locks, log_buffers, last_index, new_logs, iteration,
                   delivered, snapshot>>
    /\ UNCHANGED gunch

\* 2174: log_buffers[request_id] = []
generate_init_set ==
    /\ gpc = "g_init_set"
    /\ log_buffers' = Entry(<<>>)
    /\ gpc' = "g_init_release"
    /\ UNCHANGED <<log_locks, locks, glock, last_index, new_logs, iteration,
                   delivered, snapshot>>
    /\ UNCHANGED gunch

\* 2182-2188: the existing lines are yielded under the lock; last_index = len(logs)
generate_first_send ==
    /\ gpc = "g_first_send"
    /\ LET logs == IF Has(log_buffers) THEN Val(log_buffers) ELSE <<>>
       IN  /\ delivered' = delivered \o logs
           /\ snapshot' = logs
           /\ last_index' = Len(logs)
    /\ gpc' = "g_first_release"
    /\ UNCHANGED <<log_locks, log_buffers, locks, glock, new_logs, iteration>>
    /\ UNCHANGED gunch

\* 2200: iteration += 1
NextIteration_same(it) == it
NextIteration(it) == it + 1

\* 2196-2200: while iteration < max_iterations: sleep; iteration += 1
generate_loop ==
    /\ gpc = "g_loop"
    /\ IF iteration < MaxIterations
         THEN /\ iteration' = NextIteration(iteration)
              /\ new_logs' = <<>>
              /\ gpc' = "g_poll_lookup"
         ELSE /\ gpc' = "g_done"
              /\ UNCHANGED <<iteration, new_logs>>
    /\ UNCHANGED <<log_locks, log_buffers, locks, glock, last_index, delivered, snapshot>>
    /\ UNCHANGED gunch

\* 2208-2212: the lines past last_index are taken under the lock
generate_poll_read ==
    /\ gpc = "g_poll_read"
    /\ IF Has(log_buffers) /\ last_index < Len(Val(log_buffers))
         THEN /\ new_logs' = From(Val(log_buffers), last_index)
              /\ last_index' = Len(Val(log_buffers))
         ELSE UNCHANGED <<new_logs, last_index>>
    /\ gpc' = "g_poll_release"
    /\ UNCHANGED <<log_locks, log_buffers, locks, glock, iteration, delivered, snapshot>>
    /\ UNCHANGED gunch

\* 2215-2217: for line in new_logs: yield
generate_poll_send ==
    /\ gpc = "g_poll_send"
    /\ delivered' = delivered \o new_logs
    /\ gpc' = "g_loop"
    /\ UNCHANGED <<log_locks, log_buffers, locks, glock, last_index, new_logs,
                   iteration, snapshot>>
    /\ UNCHANGED gunch

\* 2218-2221: GeneratorExit at the yield: the client disconnected
generate_disconnect ==
    /\ gpc = "g_poll_send"
    /\ gpc' = "g_done"
    /\ UNCHANGED <<log_locks, log_buffers, locks, glock, last_index, new_logs,
                   iteration, delivered, snapshot>>
    /\ UNCHANGED gunch

generate ==
    \/ generate_start
    \/ generate_chk_lock
    \/ generate_mklock
    \/ generate_chk_buf
    \/ generate_lookup("g_init_lookup", "g_init_acquire")
    \/ generate_acquire("g_init_acquire", "g_init_set")
    \/ generate_init_set
    \/ generate_release("g_init_release", "g_first_lookup")
    \/ generate_lookup("g_first_lookup", "g_first_acquire")
    \/ generate_acquire("g_first_acquire", "g_first_send")
    \/ generate_first_send
    \/ generate_release("g_first_release", "g_loop")
    \/ generate_loop
    \/ generate_lookup("g_poll_lookup", "g_poll_acquire")
    \/ generate_acquire("g_poll_acquire", "g_poll_read")
    \/ generate_poll_read
    \/ generate_release("g_poll_release", "g_poll_send")
    \/ generate_poll_send
    \/ generate_disconnect

(***************************************************************************)
(* delayed_cleanup (src/app.py:1119-1154), from the end of its sleep.      *)
(***************************************************************************)
cunch == <<ppc, plock, ptmp, sent, gpc, glock, last_index, new_logs, iteration,
           delivered, snapshot, appended, valvars, insvars,
           provvars, dlvars, batvars, morevars>>

\* 1121: time.sleep(delay) returns; the files are removed
delayed_cleanup_start ==
    /\ cpc = "c_idle"
    /\ cpc' = "c_acq_creation"
    /\ UNCHANGED <<log_locks, log_buffers, creation_lock, locks, clock>>
    /\ UNCHANGED <<released>>
    /\ UNCHANGED cunch

\* 1137: with _log_buffer_creation_lock
delayed_cleanup_acq_creation ==
    /\ cpc = "c_acq_creation"
    /\ creation_lock = None
    /\ creation_lock' = Cleaner
    /\ cpc' = "c_check"
    /\ UNCHANGED <<log_locks, log_buffers, locks, clock>>
    /\ UNCHANGED <<released>>
    /\ UNCHANGED cunch

\* 1138: if request_id in log_locks
delayed_cleanup_check ==
    /\ cpc = "c_check"
    /\ cpc' = IF Has(log_locks) THEN "c_lookup" ELSE "c_rel_creation"
    /\ UNCHANGED <<log_locks, log_buffers, creation_lock, locks, clock>>
    /\ UNCHANGED <<released>>
    /\ UNCHANGED cunch

\* 1143: log_locks[request_id]
delayed_cleanup_lookup ==
    /\ cpc = "c_lookup"
    /\ log_locks' = LockGetItem(log_locks, locks)
    /\ locks' = LocksAfterGetItem(log_locks, locks)
    /\ clock' = Val(log_locks')
    /\ cpc' = "c_acquire"
    /\ UNCHANGED <<log_buffers, creation_lock>>
    /\ UNCHANGED <<released>>
    /\ UNCHANGED cunch

\* 1143: with <that lock>
delayed_cleanup_acquire ==
    /\ cpc = "c_acquire"
    /\ locks[clock] = None
    /\ locks' = [locks EXCEPT ![clock] = Cleaner]
    /\ cpc' = "c_delbuf"
    /\ UNCHANGED <<log_locks, log_buffers, creation_lock, clock>>
    /\ UNCHANGED <<released>>
    /\ UNCHANGED cunch

\* 1144-1145: if request_id in log_buffers: del log_buffers[request_id]
delayed_cleanup_delbuf ==
    /\ cpc = "c_delbuf"
    /\ log_buffers' = Absent
    /\ cpc' = "c_release"
    /\ UNCHANGED <<log_locks, creation_lock, locks, clock>>
    /\ UNCHANGED <<released>>
    /\ UNCHANGED cunch

\* 1143: leaving the with block
delayed_cleanup_release ==
    /\ cpc = "c_release"
    /\ locks' = [locks EXCEPT ![clock] = None]
    /\ clock' = 0
    /\ cpc' = "c_dellock"
    /\ UNCHANGED <<log_locks, log_buffers, creation_lock>>
    /\ UNCHANGED <<released>>
    /\ UNCHANGED cunch

\* 1149-1152: del log_locks[request_id] (a KeyError is swallowed)
delayed_cleanup_dellock ==
    /\ cpc = "c_dellock"
    /\ log_locks' = Absent
    /\ released' = TRUE
    /\ cpc' = "c_rel_creation"
    /\ UNCHANGED <<log_buffers, creation_lock, locks, clock>>
    /\ UNCHANGED cunch

\* 1137: leaving the with block; delayed_cleanup returns
delayed_cleanup_rel_creation ==
    /\ cpc = "c_rel_creation"
    /\ creation_lock' = None
    /\ cpc' = "c_done"
    /\ UNCHANGED <<log_locks, log_buffers, locks, clock>>
    /\ UNCHANGED <<released>>
    /\ UNCHANGED cunch

delayed_cleanup ==
    \/ delayed_cleanup_start
    \/ delayed_cleanup_acq_creation
    \/ delayed_cleanup_check
    \/ delayed_cleanup_lookup
    \/ delayed_cleanup_acquire
    \/ delayed_cleanup_delbuf
    \/ delayed_cleanup_release
    \/ delayed_cleanup_dellock
    \/ delayed_cleanup_rel_creation

\* One subscriber and the producers, with no cleanup in between.
NextStream ==
    \/ \E p \in Producers : push_log(p)
    \/ generate

\* The second producer enters push_log at most LinesSecondProducer times.
NextLog ==
    \/ push_log("p1")
    \/ (ppc["p2"] = "idle" => sent["p2"] < LinesSecondProducer) /\ push_log("p2")
    \/ generate
    \/ delayed_cleanup

(***************************************************************************)
(* validate_request_id (src/app.py:2249-2262).  A request id is a sequence *)
(* of characters; the alphabet holds representatives of the classes the    *)
(* pattern tells apart.                                                    *)
(***************************************************************************)
Chars == {"a", "Z", "7", "_", "-", "/", " ", "\n"}

\* the character class [a-zA-Z0-9_-]
IdChar(c) == c \in {"a", "Z", "7", "_", "-"}

Strings(n) == UNION {[1..k -> Chars] : k \in 0..n}

\* Length of the longest prefix of str made of class characters: what the
\* greedy [a-zA-Z0-9_-]+ consumes from position 0.
RECURSIVE ClassRun(_, _)
ClassRun(str, i) ==
    IF i <= Len(str) /\ IdChar(str[i]) THEN ClassRun(str, i + 1) ELSE i - 1

\* Python's $ (no re.MULTILINE): at the end of the string, and also just
\* before a newline that is the last character.
DollarAt(str, n) ==
    \/ n = Len(str)
    \/ n = Len(str) - 1 /\ str[Len(str)] = "\n"

\* re.match(r'^[a-zA-Z0-9_-]+$', str): the class run is at least one character
\* long and $ matches after some non-empty prefix of it.  A class character is
\* never a newline, so only the whole run can be followed by $.
ReMatch(str) ==
    LET n == ClassRun(str, 1)
    IN  n >= 1 /\ DollarAt(str, n)

\* 2249-2262
validate_request_id(request_id) ==
    IF request_id = <<>> THEN <<None, "Missing request ID">>
    ELSE IF ~ReMatch(request_id) THEN <<None, "Invalid request ID format">>
    ELSE IF Len(request_id) > MaxRequestIdLen THEN <<None, "Request ID too long">>
    ELSE <<request_id, None>>

validate_call ==
    /\ vpc = "idle"
    /\ \E str \in Strings(MaxRequestIdLen + 1) : v_request_id' = str
    /\ vpc' = "called"
    /\ UNCHANGED v_result
    /\ UNCHANGED <<logvars, insvars, provvars, dlvars, batvars, morevars>>

validate_return ==
    /\ vpc = "called"
    /\ v_result' = validate_request_id(v_request_id)
    /\ vpc' = "returned"
    /\ UNCHANGED v_request_id
    /\ UNCHANGED <<logvars, insvars, provvars, dlvars, batvars, morevars>>

NextValidate == validate_call \/ validate_return

(***************************************************************************)
(* run_installer (src/app.py:2529-2603) and the installer's child process. *)
(* Time passes only while run_installer is blocked (in readline, in        *)
(* process.wait) or has returned: its own statements take no time.         *)
(***************************************************************************)
\* What a line written by the child is, as far as run_installer tells lines
\* apart: ordinary text, a line that is empty after strip(), and a line
\* holding "The server installed successfully".
LineKinds == {"text", "blank", "success"}

\* line.strip()
Strip(kind) == IF kind = "blank" THEN "" ELSE kind

\* 2564: the success phrases
IsSuccessLine(l) == l = "success"

\* 2540
timeout_seconds == IF is_neoforge THEN NEOFORGE_TIMEOUT ELSE DEFAULT_INSTALLER_TIMEOUT

\* The final item run_installer puts on the queue.
Result(rc, out) == <<"RESULT", rc, out>>
Log(msg) == <<"LOG", msg>>
HasResult(q) == \E i \in 1..Len(q) : q[i][1] = "RESULT"

\* 2529: run_installer is started as a Process by a provisioner
run_installer_call ==
    /\ rpc = "r_idle"
    /\ java_exists' \in BOOLEAN
    /\ is_neoforge' \in BOOLEAN
    /\ rpc' = "r_java"
    /\ UNCHANGED <<now, start_time, last_output_time, line, output, queue, child,
                   child_rc, child_lines, last_write, pipe>>
    /\ UNCHANGED <<logvars, valvars, provvars, dlvars, batvars, morevars>>

\* 2533-2536: if not os.path.exists(java_path)
run_installer_java ==
    /\ rpc = "r_java"
    /\ IF java_exists
         THEN /\ rpc' = "r_spawn"
              /\ UNCHANGED queue
         ELSE /\ queue' = queue \o <<Log("java not found"), Result(-1, <<"java not found">>)>>
              /\ rpc' = "r_done"
    /\ UNCHANGED <<now, java_exists, is_neoforge, start_time, last_output_time, line,
                   output, child, child_rc, child_lines, last_write, pipe>>
    /\ UNCHANGED <<logvars, valvars, provvars, dlvars, batvars, morevars>>

\* 2542-2554: subprocess.Popen succeeds, or raises and the handler of 2601-2603
\* reports the error
run_installer_spawn ==
    /\ rpc = "r_spawn"
    /\ \/ /\ child' = "running"
          /\ start_time' = now
          /\ last_output_time' = now
          /\ last_write' = now
          /\ output' = <<>>
          /\ rpc' = "r_readline"
          /\ UNCHANGED queue
       \/ /\ queue' = queue \o <<Log("subprocess error"), Result(-1, <<"subprocess error">>)>>
          /\ rpc' = "r_done"
          /\ UNCHANGED <<child, start_time, last_output_time, last_write, output>>
    /\ UNCHANGED <<now, java_exists, is_neoforge, line, child_rc, child_lines, pipe>>
    /\ UNCHANGED <<logvars, valvars, provvars, dlvars, batvars, morevars>>

\* 2557: line = process.stdout.readline().strip() -- returns when a line is in
\* the pipe, or with "" at end of file (the child is gone and the pipe is empty)
run_installer_readline ==
    /\ rpc = "r_readline"
    /\ \/ /\ pipe # <<>>
          /\ line' = Strip(Head(pipe))
          /\ pipe' = Tail(pipe)
       \/ /\ pipe = <<>>
          /\ child # "running"
          /\ line' = ""
          /\ UNCHANGED pipe
    /\ rpc' = "r_line"
    /\ UNCHANGED <<now, java_exists, is_neoforge, start_time, last_output_time, output,
                   queue, child, child_rc, child_lines, last_write>>
    /\ UNCHANGED <<logvars, valvars, provvars, dlvars, batvars, morevars>>

\* 2558-2568: if line: ...
run_installer_line ==
    /\ rpc = "r_line"
    /\ IF line # ""
         THEN /\ last_output_time' = now
              /\ output' = Append(output, line)
              /\ IF IsSuccessLine(line)
                   THEN /\ queue' = queue \o <<Log(line), Log("installation completed")>>
                        /\ rpc' = "r_wait"
                   ELSE /\ queue' = Append(queue, Log(line))
                        /\ rpc' = "r_poll"
         ELSE /\ rpc' = "r_poll"
              /\ UNCHANGED <<last_output_time, output, queue>>
    /\ UNCHANGED <<now, java_exists, is_neoforge, start_time, line, child, child_rc,
                   child_lines, last_write, pipe>>
    /\ UNCHANGED <<logvars, valvars, provvars, dlvars, batvars, morevars>>

\* 2570-2571: if process.poll() is not None: break
run_installer_poll ==
    /\ rpc = "r_poll"
    /\ rpc' = IF child # "running" THEN "r_wait" ELSE "r_stuck"
    /\ UNCHANGED <<now, java_exists, is_neoforge, start_time, last_output_time, line,
                   output, queue, child, child_rc, child_lines, last_write, pipe>>
    /\ UNCHANGED <<logvars, valvars, provvars, dlvars, batvars, morevars>>

\* 2575-2580: the no-output check
run_installer_stuck ==
    /\ rpc = "r_stuck"
    /\ IF now - last_output_time > NO_OUTPUT_TIMEOUT
         THEN /\ child' = IF child = "running" THEN "terminated" ELSE child
              /\ output' = Append(output, "timed out due to no output")
              /\ queue' = queue \o <<Log("no output"), Result(-1, output')>>
              /\ rpc' = "r_done"
         ELSE /\ rpc' = "r_overall"
              /\ UNCHANGED <<child, output, queue>>
    /\ UNCHANGED <<now, java_exists, is_neoforge, start_time, last_output_time, line,
                   child_rc, child_lines, last_write, pipe>>
    /\ UNCHANGED <<logvars, valvars, provvars, dlvars, batvars, morevars>>

\* 2583-2588: the overall timeout
run_installer_overall ==
    /\ rpc = "r_overall"
    /\ IF now - start_time > timeout_seconds
         THEN /\ child' = IF child = "running" THEN "terminated" ELSE child
              /\ output' = Append(output, "timed out")
              /\ queue' = queue \o <<Log("overall timeout"), Result(-1, output')>>
              /\ rpc' = "r_done"
         ELSE /\ rpc' = "r_readline"
              /\ UNCHANGED <<child, output, queue>>
    /\ UNCHANGED <<now, java_exists, is_neoforge, start_time, last_output_time, line,
                   child_rc, child_lines, last_write, pipe>>
    /\ UNCHANGED <<logvars, valvars, provvars, dlvars, batvars, morevars>>

\* 2590-2600: returncode = process.wait() returns once the child is gone; the
\* rest of the pipe is read and the result is put on the queue
run_installer_wait ==
    /\ rpc = "r_wait"
    /\ child # "running"
    /\ queue' = queue \o [i \in 1..Len(pipe) |-> Log(Strip(pipe[i]))]
                      \o <<Log("completed"), Result(child_rc, output \o pipe)>>
    /\ output' = output \o pipe
    /\ pipe' = <<>>
    /\ rpc' = "r_done"
    /\ UNCHANGED <<now, java_exists, is_neoforge, start_time, last_output_time, line,
                   child, child_rc, child_lines, last_write>>
    /\ UNCHANGED <<logvars, valvars, provvars, dlvars, batvars, morevars>>

run_installer ==
    \/ run_installer_call
    \/ run_installer_java
    \/ run_installer_spawn
    \/ run_installer_readline
    \/ run_installer_line
    \/ run_installer_poll
    \/ run_installer_stuck
    \/ run_installer_overall
    \/ run_installer_wait

\* The child writes a line to its stdout.
child_write ==
    /\ child = "running"
    /\ child_lines < MaxChildLines
    /\ \E k \in LineKinds : pipe' = Append(pipe, k)
    /\ child_lines' = child_lines + 1
    /\ last_write' = now
    /\ UNCHANGED <<rpc, now, java_exists, is_neoforge, start_time, last_output_time, line,
                   output, queue, child, child_rc>>
    /\ UNCHANGED <<logvars, valvars, provvars, dlvars, batvars, morevars>>

\* The child exits on its own.
child_exit ==
    /\ child = "running"
    /\ child' = "exited"
    /\ child_rc' \in {0, 1}
    /\ UNCHANGED <<rpc, now, java_exists, is_neoforge, start_time, last_output_time, line,
                   output, queue, child_lines, last_write, pipe>>
    /\ UNCHANGED <<logvars, valvars, provvars, dlvars, batvars, morevars>>

\* run_installer waits in readline (nothing to read, the child alive) or in
\* process.wait (the child alive).
Blocked ==
    \/ rpc = "r_readline" /\ pipe = <<>> /\ child = "running"
    \/ rpc = "r_wait" /\ child = "running"

\* Time passes.
Tick ==
    /\ Blocked
    /\ now + TickSeconds <= MaxTime
    /\ now' = now + TickSeconds
    /\ UNCHANGED <<rpc, java_exists, is_neoforge, start_time, last_output_time, line,
                   output, queue, child, child_rc, child_lines, last_write, pipe>>
    /\ UNCHANGED <<logvars, valvars, provvars, dlvars, batvars, morevars>>

NextInstaller == run_installer \/ child_write \/ child_exit \/ Tick

(***************************************************************************)
(* The loader provisioners: setup_fabric (2606-2822), setup_forge          *)
(* (3100-3429), setup_neoforge (3432-3698), setup_quilt (3784-4163).       *)
(* A directory or a ZIP is a function from relative paths to file contents.*)
(* One action is one whole call; what the network, the metadata API, the   *)
(* cache and the vendor installer answer is chosen with \E.                *)
(***************************************************************************)
EmptyFile == "empty"
Data == "data"
EulaFalse == "eula=false\n"
EulaTrue == "eula=true\n"

EmptyDir == <<>>
Exists(dir, path) == path \in DOMAIN dir
\* files of b written over a (zf.extractall, shutil.copy2, open(..., "w"))
Overlay(a, b) == [q \in (DOMAIN a) \cup (DOMAIN b) |-> IF q \in DOMAIN b THEN b[q] ELSE a[q]]
WriteFile(dir, path, content) == Overlay(dir, [q \in {path} |-> content])
RemoveFile(dir, path) == [q \in (DOMAIN dir) \ {path} |-> dir[q]]
\* os.rename / shutil.move of a file
MoveFile(dir, from, to) == RemoveFile(WriteFile(dir, to, dir[from]), from)

\* The server.jar entries a walk of the tree can meet below the root.
NestedServerJars == {"pack/server.jar"}

\* The .jar names a directory listing can hold, with the substrings the
\* selection looks for.
JarNames == {"server.jar", "fabric-server-launch.jar", "neoforge-installer.jar",
             "minecraft_server.jar", "neoforge.jar", "libs.jar", "client.jar"}
HasInstaller(f) == f \in {"neoforge-installer.jar"}
HasLaunch(f) == f \in {"fabric-server-launch.jar"}
HasClient(f) == f \in {"client.jar"}
HasServer(f) == f \in {"server.jar", "fabric-server-launch.jar", "minecraft_server.jar"}
StartsWithMinecraft(f) == f \in {"minecraft_server.jar"}
HasNeoforge(f) == f \in {"neoforge-installer.jar", "neoforge.jar"}

\* What the server directory holds when a provisioner starts: the mods and
\* overrides copied before (an override may bring its own eula.txt).
StartDirs == {EmptyDir,
              [q \in {"eula.txt"} |-> EulaTrue],
              [q \in {"mods/a.jar"} |-> Data]}

\* The ZIP bundles the metadata API can point to.
ZipBundles == {[q \in {"server.jar", "libraries/l.jar"} |-> Data],
               [q \in {"pack/server.jar", "pack/libraries/l.jar"} |-> Data],
               [q \in {"server.jar"} |-> EmptyFile],
               [q \in {"libraries/l.jar", "run.sh"} |-> Data],
               [q \in {"forge.jar", "eula.txt"} |-> IF q = "eula.txt" THEN EulaTrue ELSE Data]}

\* 3139-3147, 3260-3270, 4014-4024: after extractall, a server.jar found below
\* the root is moved to the root when the root has none.
LocateServerJar(dir) ==
    IF Exists(dir, "server.jar") THEN dir
    ELSE IF \E q \in NestedServerJars : Exists(dir, q)
           THEN MoveFile(dir, CHOOSE q \in NestedServerJars : Exists(dir, q), "server.jar")
           ELSE dir

\* 3159-3163, 3421-3426, 2815-2819: eula.txt is (re)written with eula=false
CreateEula_ifMissing(dir) ==
    IF Exists(dir, "eula.txt") THEN dir ELSE WriteFile(dir, "eula.txt", EulaFalse)
CreateEula(dir) == WriteFile(dir, "eula.txt", EulaFalse)

\* 3130-3147, 3243-3270: a ZIP artifact is extracted into the server directory
UseZip(dir, zip) == LocateServerJar(Overlay(dir, zip))

\* 3156, 3417, 4127: a JAR artifact (at least MIN_INSTALLER_SIZE bytes, a valid
\* archive) is copied to server.jar
UseJar(dir) == WriteFile(dir, "server.jar", Data)

\* All orders in which os.listdir can return the set of names S.
Orders(S) == {o \in [1..Cardinality(S) -> S] : \A i, j \in 1..Cardinality(S) : o[i] = o[j] => i = j}

\* 2739, 3609: jar_files, from a listing of the root
RECURSIVE JarFiles(_)
JarFiles(listing) ==
    IF listing = <<>> THEN <<>>
    ELSE LET f == Head(listing)
         IN  IF f \in JarNames /\ ~HasInstaller(f)
               THEN <<f>> \o JarFiles(Tail(listing))
               ELSE JarFiles(Tail(listing))

\* 2770, 3640: the names put at the front
Preferred(loader, f) ==
    IF loader = "fabric" THEN HasServer(f) \/ StartsWithMinecraft(f)
    ELSE HasServer(f) \/ HasNeoforge(f)

\* 2763-2773, 3633-3643: server_jar_candidates
RECURSIVE Candidates(_, _, _)
Candidates(loader, jar_files, acc) ==
    IF jar_files = <<>> THEN acc
    ELSE LET f == Head(jar_files)
         IN  IF HasLaunch(f) \/ HasInstaller(f) \/ HasClient(f)
               THEN Candidates(loader, Tail(jar_files), acc)
             ELSE IF Preferred(loader, f)
               THEN Candidates(loader, Tail(jar_files), <<f>> \o acc)
             ELSE Candidates(loader, Tail(jar_files), Append(acc, f))

\* 2776-2781, 3646-3651: target_jar (None when there is none)
TargetJar_first(loader, jar_files) == IF jar_files # <<>> THEN jar_files[1] ELSE None
TargetJar(loader, jar_files) ==
    LET c == Candidates(loader, jar_files, <<>>)
    IN  IF c # <<>> THEN c[1]
        ELSE IF jar_files # <<>> THEN jar_files[1]
        ELSE None

\* 2795-2813, 3665-3689: the chosen JAR becomes server.jar; <<ok, dir>>
RenameToServerJar(dir, target_jar) ==
    IF Exists(dir, target_jar) /\ target_jar # "server.jar"
      THEN <<TRUE, MoveFile(dir, target_jar, "server.jar")>>
    ELSE IF Exists(dir, "server.jar") THEN <<TRUE, dir>>
    ELSE <<FALSE, dir>>

\* The root names of a directory.
RootNames(dir) == {q \in DOMAIN dir : q \in JarNames \/ q \in {"eula.txt", "run.sh", "forge.jar"}}

\* raise RuntimeError(json.dumps({"error": ..., "message": ..., "download_link": ...}))
StructuredError == [class |-> "RuntimeError", json |-> TRUE]
\* any other exception: its text is not a JSON object
RawError(cls) == [class |-> cls, json |-> FALSE]
NoError == [class |-> None, json |-> FALSE]

\* 2370-2377: json.loads(str(e)) decides what the client gets
ResponseBody(exc) == IF exc.json THEN "error_data" ELSE "plain_text"

\* Leaving a provisioner.
Leave(state, loader, path, dir, exc, jf, tj) ==
    /\ prov_state' = state
    /\ prov_loader' = loader
    /\ prov_path' = path
    /\ server_dir' = dir
    /\ prov_exc' = exc
    /\ sel_jar_files' = jf
    /\ sel_target_jar' = tj

\* Leaving a provisioner with a structured error.
Raise(loader, path, dir) == Leave("raised", loader, path, dir, StructuredError, <<>>, None)

\* Leaving a provisioner with an exception no handler of the provisioner wraps.
RaiseRaw(loader, path, dir, cls) == Leave("raised", loader, path, dir, RawError(cls), <<>>, None)

\* Leaving a provisioner by returning.
Return(loader, path, dir) == Leave("returned", loader, path, dir, NoError, <<>>, None)

\* setup_forge (3100-3429) and setup_quilt (3784-4163) from the point where the
\* artifact is on disk: the ZIP branch or the JAR branch, then eula.txt.
\* Every check of the artifact that fails raises (3214-3253, 3316-3323,
\* 3356-3409).
FreshDownload(loader, dir) ==
    \/ Raise(loader, "zip", dir)                       \* API, download or validation error
    \/ RaiseRaw(loader, "zip", dir, "OSError")         \* 3245-3311: extractall, move, copytree
    \/ RaiseRaw(loader, "jar", dir, "OSError")         \* 3417: shutil.copy2
    \/ \E zip \in ZipBundles : Return(loader, "zip", CreateEula(UseZip(dir, zip)))
    \/ Raise(loader, "jar", dir)
    \/ Return(loader, "jar", CreateEula(UseJar(dir)))

\* setup_forge: the cache branch (3123-3169) or the download branch (3171-3429)
setup_forge ==
    /\ prov_state = "idle"
    /\ \E dir \in StartDirs :
        \/ Raise("forge", None, dir)                   \* 3110-3116: not writable
        \/ \E zip \in ZipBundles :                     \* 3130-3153, 3159-3165
              Return("forge", "cache_zip", CreateEula(UseZip(dir, zip)))
        \/ Return("forge", "cache_jar", CreateEula(UseJar(dir)))     \* 3154-3165
        \/ FreshDownload("forge", dir)                 \* cache miss, or 3167-3169
    /\ UNCHANGED <<logvars, valvars, insvars, dlvars, batvars, morevars>>

\* setup_quilt (3784-4163): no cache lookup; after the artifact the vanilla
\* minecraft.jar is fetched (a failure is only logged, 4136-4142) and
\* quilt-server-launcher.properties is written
QuiltExtras(dir, vanilla_ok) ==
    LET d1 == IF vanilla_ok /\ ~Exists(dir, "minecraft.jar")
                THEN WriteFile(dir, "minecraft.jar", Data) ELSE dir
    IN  IF Exists(d1, "quilt-server-launcher.properties") THEN d1
        ELSE WriteFile(d1, "quilt-server-launcher.properties", "serverJar=minecraft.jar\n")

setup_quilt ==
    /\ prov_state = "idle"
    /\ \E dir \in StartDirs, vanilla_ok \in BOOLEAN :
        \/ Raise("quilt", None, dir)                   \* 3796-3802, 3927-3942
        \/ Raise("quilt", "zip", dir)                  \* 3957-4033
        \/ RaiseRaw("quilt", "zip", dir, "OSError")    \* 3999-4036: extractall, move, copytree
        \/ RaiseRaw("quilt", "jar", dir, "OSError")    \* 4127: shutil.copy2
        \/ \E zip \in ZipBundles :                     \* 3997-4043, 4132-4163
              Return("quilt", "zip", CreateEula(QuiltExtras(UseZip(dir, zip), vanilla_ok)))
        \/ Raise("quilt", "jar", dir)                  \* 4055-4119
        \/ Return("quilt", "jar", CreateEula(QuiltExtras(UseJar(dir), vanilla_ok)))
    /\ UNCHANGED <<logvars, valvars, insvars, dlvars, batvars, morevars>>

\* What a vendor installer that exits with code 0 can leave in the root.
Produced == {S \in SUBSET JarNames : Cardinality(S) <= MaxProduced}

\* 2616-2638: setup_fabric binds meta_url only when it has to fetch the
\* installer; every later error message and payload reads it
Failure(loader, meta_url_bound) ==
    IF meta_url_bound THEN StructuredError ELSE RawError("UnboundLocalError")

\* setup_fabric (2606-2822) and setup_neoforge (3432-3698): installer fetch,
\* installer run, listing, selection, rename, eula.txt
InstallerProvision(loader) ==
    /\ prov_state = "idle"
    /\ \E dir \in StartDirs, installer_exists \in BOOLEAN :
        LET meta_url_bound == loader # "fabric" \/ ~installer_exists      \* 2616-2617
            failure == Failure(loader, meta_url_bound)
        IN
        \/ /\ meta_url_bound                           \* 2619-2631, 3444-3480: fetch failed
           /\ Raise(loader, None, dir)
        \/ /\ loader = "neoforge"                      \* 3456, 3489: data["versions"], ZipFile()
           /\ \E cls \in {"KeyError", "BadZipFile"} : RaiseRaw(loader, None, dir, cls)
        \/ Leave("raised", loader, None, dir, failure, <<>>, None)        \* 2632-2638: not writable
        \/ Leave("raised", loader, "installer", dir, failure, <<>>, None) \* 2684-2694, 2728-2735
        \/ \E S \in Produced :
            \E empty \in SUBSET S :
             LET after == Overlay(dir, [f \in S |-> IF f \in empty THEN EmptyFile ELSE Data])
             IN  \E listing \in Orders(RootNames(after)) :
                   LET jar_files == JarFiles(listing)
                       target_jar == TargetJar(loader, jar_files)
                   IN  IF jar_files = <<>> \/ target_jar = None             \* 2741-2759, 2783-2790
                         THEN Leave("raised", loader, "installer", after, failure,
                                    jar_files, target_jar)
                       ELSE LET r == RenameToServerJar(after, target_jar)
                            IN  IF r[1]
                                  THEN \/ Leave("returned", loader, "installer",
                                                CreateEula(r[2]), NoError, jar_files, target_jar)
                                       \/ Leave("raised", loader, "installer", after,  \* 2797-2798
                                                RawError("OSError"), jar_files, target_jar)
                                  ELSE Leave("raised", loader, "installer", after, failure,
                                             jar_files, target_jar)         \* 2806-2813
    /\ UNCHANGED <<logvars, valvars, insvars, dlvars, batvars, morevars>>

setup_fabric == InstallerProvision("fabric")

setup_neoforge == InstallerProvision("neoforge")

\* generate_server handles the next request: the outcome is forgotten.
provision_reset ==
    /\ prov_state # "idle"
    /\ prov_state' = "idle"
    /\ prov_loader' = None
    /\ prov_path' = None
    /\ server_dir' = EmptyDir
    /\ prov_exc' = NoError
    /\ sel_jar_files' = <<>>
    /\ sel_target_jar' = None
    /\ UNCHANGED <<logvars, valvars, insvars, dlvars, batvars, morevars>>

NextProvision == setup_fabric \/ setup_forge \/ setup_neoforge \/ setup_quilt \/ provision_reset

(***************************************************************************)
(* download_to_file (src/app.py:2451-2513) and async_download_to_file      *)
(* (1582-1616).  Sizes are counted in chunks; the content of a file is the *)
(* attempt that wrote it and the number of chunks written.                 *)
(***************************************************************************)
UrlKinds == {"empty", "malformed", "nonhttp", "http"}

\* A header, a break or a body that is not there.
Missing == -1

\* What the server and the local disk do in one attempt.
Responses == [connect : BOOLEAN, status_ok : BOOLEAN, writable : BOOLEAN,
              declared : {Missing} \cup (0..(MaxSize + 1)),
              body : 0..(MaxSize + 1),
              break_at : {Missing} \cup (0..MaxSize)]

\* 2493: the classes `except requests.exceptions.RequestException` catches
IsRequestException(exc) ==
    exc \in {"MissingSchema", "InvalidSchema", "ConnectionError", "HTTPError",
             "ChunkedEncodingError"}

\* 2462: wait_time
WaitTime_double(a) == 2 ^ a
WaitTime(a) == 2 ^ (a - 1)

\* 2496-2500, 2507-2511, 1610-1614: if os.path.exists(dest): os.remove(dest)
RemoveIfExists_keep(file) == file
RemoveIfExists(file) == Absent

Outcome(exc, outcome, file, written, served) ==
    [exc |-> exc, outcome |-> outcome, file |-> file, written |-> written, served |-> served]

\* 2472-2488, 1589-1605: the request and the streaming of the body by attempt k
Fetch(resp, file, k) ==
    IF ~resp.connect THEN Outcome("ConnectionError", "transport", file, 0, Missing)
    ELSE IF ~resp.status_ok THEN Outcome("HTTPError", "status", file, 0, Missing)
    ELSE IF resp.declared # Missing /\ resp.declared > MaxSize
      THEN Outcome("ValueError", "declared_oversize", file, 0, Missing)
    ELSE IF ~resp.writable THEN Outcome("OSError", "disk", file, 0, Missing)
    ELSE LET broken == resp.break_at # Missing /\ resp.break_at < resp.body
             arrived == IF broken THEN resp.break_at ELSE resp.body
         IN  IF arrived > MaxSize
               THEN Outcome("ValueError", "stream_oversize", Absent, MaxSize, resp.body)
             ELSE IF broken
               THEN Outcome("ChunkedEncodingError", "transport",
                            Entry([by |-> k, chunks |-> arrived]), arrived, resp.body)
             ELSE Outcome(None, "ok", Entry([by |-> k, chunks |-> resp.body]),
                          resp.body, resp.body)

\* 2468-2488: the URL check, then the request
Try(u, resp, file, k) ==
    IF u = "empty" THEN Outcome("ValueError", "invalid_url", file, 0, Missing)
    ELSE IF u = "malformed" THEN Outcome("MissingSchema", "invalid_url", file, 0, Missing)
    ELSE IF u = "nonhttp" THEN Outcome("InvalidSchema", "invalid_url", file, 0, Missing)
    ELSE Fetch(resp, file, k)

InitDownload ==
    /\ dl_pc = "idle"
    /\ dl_fn = None
    /\ url = None
    /\ retries = 0
    /\ attempt = 0
    /\ dest = Absent
    /\ dl_log = <<>>
    /\ dl_waits = <<>>
    /\ dl_outcomes = <<>>
    /\ dl_served = <<>>
    /\ dl_written = 0
    /\ dl_exc = None

\* 2451-2458: the call; range(0) is empty, so retries = 0 returns at once
download_to_file_call ==
    /\ dl_pc = "idle"
    /\ \E u \in UrlKinds, r \in 0..MaxRetries, old \in {Absent, Entry([by |-> 0, chunks |-> 1])} :
        /\ url' = u
        /\ retries' = r
        /\ dest' = old
        /\ dl_pc' = IF r = 0 THEN "returned" ELSE "loop"
    /\ dl_fn' = "download_to_file"
    /\ attempt' = 0
    /\ UNCHANGED <<dl_log, dl_waits, dl_outcomes, dl_served, dl_written, dl_exc>>
    /\ UNCHANGED <<logvars, valvars, insvars, provvars, batvars, morevars>>

\* 2458-2513: one iteration of the retry loop
download_to_file_attempt ==
    /\ dl_pc = "loop"
    /\ \E resp \in Responses :
        LET wait_time == WaitTime(attempt)
            log1 == IF attempt > 0
                      THEN Append(dl_log, <<"Retrying download", attempt + 1, wait_time>>)
                      ELSE dl_log
            log2 == Append(log1, <<"Downloading", attempt + 1>>)
            o == Try(url, resp, dest, attempt + 1)
        IN  /\ dl_waits' = IF attempt > 0 THEN Append(dl_waits, wait_time) ELSE dl_waits
            /\ dl_outcomes' = Append(dl_outcomes, o.outcome)
            /\ dl_served' = Append(dl_served, o.served)
            /\ dl_written' = o.written
            /\ IF o.exc = None
                 THEN /\ dl_log' = Append(log2, <<"Downloaded">>)          \* 2490-2491
                      /\ dest' = o.file
                      /\ dl_pc' = "returned"
                      /\ UNCHANGED <<attempt, dl_exc>>
               ELSE IF IsRequestException(o.exc)                           \* 2493
                 THEN IF attempt = retries - 1
                        THEN /\ dest' = RemoveIfExists(o.file)               \* 2494-2502
                             /\ dl_pc' = "raised"
                             /\ dl_exc' = o.exc
                             /\ dl_log' = log2
                             /\ UNCHANGED attempt
                        ELSE /\ dest' = o.file                              \* 2504
                             /\ attempt' = attempt + 1
                             /\ dl_log' = log2
                             /\ UNCHANGED <<dl_pc, dl_exc>>
               ELSE /\ dest' = RemoveIfExists(o.file)                        \* 2505-2513
                    /\ dl_pc' = "raised"
                    /\ dl_exc' = o.exc
                    /\ dl_log' = log2
                    /\ UNCHANGED attempt
    /\ UNCHANGED <<dl_fn, url, retries>>
    /\ UNCHANGED <<logvars, valvars, insvars, provvars, batvars, morevars>>

\* 1582-1616: one whole call of async_download_to_file
async_download_to_file ==
    /\ dl_pc = "idle"
    /\ \E resp \in Responses, old \in {Absent, Entry([by |-> 0, chunks |-> 1])} :
        LET o == Fetch(resp, old, 1)
            log1 == <<<<"Requesting">>>>
        IN  /\ dl_outcomes' = <<o.outcome>>
            /\ dl_served' = <<o.served>>
            /\ dl_written' = o.written
            /\ dl_exc' = o.exc
            /\ IF o.exc = None
                 THEN /\ dest' = o.file
                      /\ dl_log' = log1 \o <<<<"Started downloading">>, <<"Saved to">>>>
                      /\ dl_pc' = "returned"
                 ELSE /\ dest' = RemoveIfExists(o.file)                      \* 1608-1616
                      /\ dl_log' = Append(log1, <<"Error downloading">>)
                      /\ dl_pc' = "raised"
    /\ dl_fn' = "async_download_to_file"
    /\ url' = "http"
    /\ UNCHANGED <<retries, attempt, dl_waits>>
    /\ UNCHANGED <<logvars, valvars, insvars, provvars, batvars, morevars>>

\* The caller goes on; the next download starts from scratch.
download_done ==
    /\ dl_pc \in {"returned", "raised"}
    /\ dl_pc' = "idle"
    /\ dl_fn' = None
    /\ url' = None
    /\ retries' = 0
    /\ attempt' = 0
    /\ dest' = Absent
    /\ dl_log' = <<>>
    /\ dl_waits' = <<>>
    /\ dl_outcomes' = <<>>
    /\ dl_served' = <<>>
    /\ dl_written' = 0
    /\ dl_exc' = None
    /\ UNCHANGED <<logvars, valvars, insvars, provvars, batvars, morevars>>

NextDownload ==
    \/ download_to_file_call
    \/ download_to_file_attempt
    \/ async_download_to_file
    \/ download_done

(***************************************************************************)
(* The parallel mod download of parallel_download_and_copy_async           *)
(* (1619-1744) inside generate_server (2332-2377).  The coroutines run on  *)
(* one event loop and interleave at their awaits; every task has its own   *)
(* destination file.                                                       *)
(***************************************************************************)
\* 1678: asyncio.gather(*tasks, return_exceptions=True)
ReturnExceptions_off == FALSE
ReturnExceptions == TRUE

Task(pc, downloaded) == [pc |-> pc, downloaded |-> downloaded]
Terminal(t) == t.pc \in {"ok", "raised"}
Raised(ts) == {i \in 1..Len(ts) : ts[i].pc = "raised"}

InitBatch ==
    /\ b_pc = "idle"
    /\ tasks = <<>>
    /\ mods_dst_dir = <<>>
    /\ failed = 0
    /\ b_cause = None

\* 2332-2336, 1633-1677: the tasks are queued
generate_server_mods ==
    /\ b_pc = "idle"
    /\ \E n \in 0..MaxTasks :
        /\ tasks' = [i \in 1..n |-> Task("queued", 0)]
        /\ mods_dst_dir' = [i \in 1..n |-> Absent]
        /\ b_pc' = IF n = 0 THEN "copy" ELSE "gather"                      \* 1676
    /\ UNCHANGED <<failed, b_cause>>
    /\ UNCHANGED <<logvars, valvars, insvars, provvars, dlvars, morevars>>

\* 1588-1589: a coroutine runs up to its first await
task_request(i) ==
    /\ b_pc = "gather"
    /\ tasks[i].pc = "queued"
    /\ tasks' = [tasks EXCEPT ![i] = Task("requesting", 0)]
    /\ UNCHANGED <<b_pc, mods_dst_dir, failed, b_cause>>
    /\ UNCHANGED <<logvars, valvars, insvars, provvars, dlvars, morevars>>

\* 1589-1599, 1608-1616: the response arrives
task_response(i) ==
    /\ b_pc = "gather"
    /\ tasks[i].pc = "requesting"
    /\ \E connect, status_ok, writable \in BOOLEAN, declared \in {Missing} \cup (0..(MaxSize + 1)) :
        IF ~connect \/ ~status_ok \/ (declared # Missing /\ declared > MaxSize) \/ ~writable
          THEN /\ tasks' = [tasks EXCEPT ![i] = Task("raised", 0)]
               /\ mods_dst_dir' = [mods_dst_dir EXCEPT ![i] = RemoveIfExists(@)]
          ELSE /\ tasks' = [tasks EXCEPT ![i] = Task("streaming", 0)]
               /\ mods_dst_dir' = [mods_dst_dir EXCEPT ![i] = Entry([by |-> i, chunks |-> 0])]
    /\ UNCHANGED <<b_pc, failed, b_cause>>
    /\ UNCHANGED <<logvars, valvars, insvars, provvars, dlvars, morevars>>

\* 1600-1607, 1608-1616: the next chunk, the end of the body, or a broken stream
task_chunk(i) ==
    /\ b_pc = "gather"
    /\ tasks[i].pc = "streaming"
    /\ \/ /\ tasks[i].downloaded + 1 <= MaxSize                          \* 1605
          /\ tasks' = [tasks EXCEPT ![i] = Task("streaming", @.downloaded + 1)]
          /\ mods_dst_dir' = [mods_dst_dir EXCEPT
                                 ![i] = Entry([by |-> i, chunks |-> tasks[i].downloaded + 1])]
       \/ /\ tasks[i].downloaded + 1 > MaxSize                           \* 1602-1604
          /\ tasks' = [tasks EXCEPT ![i] = Task("raised", @.downloaded + 1)]
          /\ mods_dst_dir' = [mods_dst_dir EXCEPT ![i] = RemoveIfExists(Absent)]
       \/ /\ tasks' = [tasks EXCEPT ![i] = Task("raised", @.downloaded)]   \* transport error
          /\ mods_dst_dir' = [mods_dst_dir EXCEPT ![i] = RemoveIfExists(@)]
       \/ /\ tasks' = [tasks EXCEPT ![i] = Task("ok", @.downloaded)]       \* 1607
          /\ UNCHANGED mods_dst_dir
    /\ UNCHANGED <<b_pc, failed, b_cause>>
    /\ UNCHANGED <<logvars, valvars, insvars, provvars, dlvars, morevars>>

\* 1678-1682: gather returns when every task is done; without
\* return_exceptions the first exception would leave it at once (2339-2342)
gather_return ==
    /\ b_pc = "gather"
    /\ IF ~ReturnExceptions /\ Raised(tasks) # {}
         THEN /\ b_pc' = "error500"
              /\ b_cause' = "download"
              /\ UNCHANGED failed
         ELSE /\ \A i \in 1..Len(tasks) : Terminal(tasks[i])
              /\ failed' = Cardinality(Raised(tasks))
              /\ b_pc' = "copy"
              /\ UNCHANGED b_cause
    /\ UNCHANGED <<tasks, mods_dst_dir>>
    /\ UNCHANGED <<logvars, valvars, insvars, provvars, dlvars, morevars>>

\* 1684-1744, 2337-2342: the overrides are copied; os.makedirs may fail
copy_overrides ==
    /\ b_pc = "copy"
    /\ \/ /\ b_pc' = "provision"
          /\ UNCHANGED b_cause
       \/ /\ b_pc' = "error500"
          /\ b_cause' = "copy"
    /\ UNCHANGED <<tasks, mods_dst_dir, failed>>
    /\ UNCHANGED <<logvars, valvars, insvars, provvars, dlvars, morevars>>

\* 2343-2377: the loader provisioner runs
provision_step ==
    /\ b_pc = "provision"
    /\ \/ /\ b_pc' = "success"
          /\ UNCHANGED b_cause
       \/ /\ b_pc' = "error500"
          /\ b_cause' = "provision"
    /\ UNCHANGED <<tasks, mods_dst_dir, failed>>
    /\ UNCHANGED <<logvars, valvars, insvars, provvars, dlvars, morevars>>

\* The request is answered; the next one starts.
request_done ==
    /\ b_pc \in {"success", "error500"}
    /\ b_pc' = "idle"
    /\ tasks' = <<>>
    /\ mods_dst_dir' = <<>>
    /\ failed' = 0
    /\ b_cause' = None
    /\ UNCHANGED <<logvars, valvars, insvars, provvars, dlvars, morevars>>

NextBatch ==
    \/ generate_server_mods
    \/ \E i \in 1..Len(tasks) : task_request(i) \/ task_response(i) \/ task_chunk(i)
    \/ gather_return
    \/ copy_overrides
    \/ provision_step
    \/ request_done

(***************************************************************************)
(* The Forge artifact cache: _get_forge_from_cache (src/app.py:2906-2929)  *)
(* and _save_forge_to_cache (2932-2956).  The file of a version lives at   *)
(* one path of the cache directory; downloads and anything else outside    *)
(* the two functions write, resize or delete it.                           *)
(***************************************************************************)
Versions == {"v1", "v2"}
Savers == {"s1", "s2"}

\* The artifact of the first version is a ZIP bundle, the other one a JAR.
IsZipBundle(v) == v = "v1"

CacheInfo(path, is_zip, size, timestamp) ==
    [path |-> path, is_zip |-> is_zip, size |-> size, timestamp |-> timestamp]

\* 2938: sum(info.get("size", 0) for info in _forge_cache.values())
RECURSIVE SumSizes(_, _)
SumSizes(cache, keys) ==
    IF keys = {} THEN 0
    ELSE LET k == CHOOSE x \in keys : TRUE
         IN  (IF Has(cache[k]) THEN Val(cache[k]).size ELSE 0) + SumSizes(cache, keys \ {k})

TotalCacheSize(cache) == SumSizes(cache, Versions)

\* 2917: age < FORGE_CACHE_MAX_AGE
Fresh_always(age) == TRUE
Fresh(age) == age < CacheMaxAge

\* What an operation leaves behind for the next state to look at.
Op(op, version, result, registered, exists, fresh, size_ok, clean) ==
    [op |-> op, version |-> version, result |-> result, registered |-> registered,
     exists |-> exists, fresh |-> fresh, size_ok |-> size_ok, clean |-> clean]
OtherOp == Op("other", None, Absent, FALSE, FALSE, FALSE, FALSE, FALSE)

InitCache ==
    /\ forge_cache = [v \in Versions |-> Absent]
    /\ forge_cache_lock = None
    /\ cache_files = [v \in Versions |-> Absent]
    /\ cache_now = 0
    /\ spc = [t \in Savers |-> "idle"]
    /\ s_version = [t \in Savers |-> None]
    /\ s_is_zip = [t \in Savers |-> FALSE]
    /\ file_size = [t \in Savers |-> 0]
    /\ s_clean = [t \in Savers |-> FALSE]
    /\ last_op = OtherOp

\* 2906-2929: the whole lookup runs under _forge_cache_lock
get_forge_from_cache(version) ==
    /\ forge_cache_lock = None
    /\ LET registered == Has(forge_cache[version])                       \* 2909
           cache_info == Val(forge_cache[version])
           exists == registered /\ Has(cache_files[cache_info.path])     \* 2914
           age == cache_now - cache_info.timestamp                       \* 2916
           fresh == exists /\ Fresh(age)                                 \* 2917
           size_ok == fresh /\ Val(cache_files[cache_info.path]) = cache_info.size   \* 2919
       IN  /\ IF exists /\ ~fresh                                        \* 2922-2928
                THEN /\ cache_files' = [cache_files EXCEPT ![cache_info.path] = Absent]
                     /\ forge_cache' = [forge_cache EXCEPT ![version] = Absent]
                     /\ s_clean' = [t \in Savers |-> FALSE]
                ELSE UNCHANGED <<cache_files, forge_cache, s_clean>>
           /\ last_op' = Op("get", version,
                            IF size_ok THEN Entry(cache_info) ELSE Absent,   \* 2921, 2929
                            registered,
                            registered /\ Has(cache_files[cache_info.path]),
                            registered /\ cache_now - cache_info.timestamp < CacheMaxAge,
                            /\ registered
                            /\ Has(cache_files[cache_info.path])
                            /\ Val(cache_files[cache_info.path]) = cache_info.size,
                            FALSE)
    /\ UNCHANGED <<forge_cache_lock, cache_now, spc, s_version, s_is_zip, file_size>>
    /\ UNCHANGED <<oldvars, gsvars, namevars, zipvars, cntvars, latevars>>

\* 2932: a provisioning request calls _save_forge_to_cache for its artifact
save_call(t) ==
    /\ spc[t] = "idle"
    /\ \E v \in Versions :
        /\ s_version' = [s_version EXCEPT ![t] = v]
        /\ s_is_zip' = [s_is_zip EXCEPT ![t] = IsZipBundle(v)]
    /\ spc' = [spc EXCEPT ![t] = "check"]
    /\ s_clean' = [s_clean EXCEPT ![t] = TRUE]
    /\ last_op' = OtherOp
    /\ UNCHANGED <<forge_cache, forge_cache_lock, cache_files, cache_now, file_size>>
    /\ UNCHANGED <<oldvars, gsvars, namevars, zipvars, cntvars, latevars>>

\* 2941, 2954, 2956: the function returns; its locals are gone
SaveLeaves(t) ==
    /\ spc' = [spc EXCEPT ![t] = "idle"]
    /\ s_version' = [s_version EXCEPT ![t] = None]
    /\ s_is_zip' = [s_is_zip EXCEPT ![t] = FALSE]
    /\ file_size' = [file_size EXCEPT ![t] = 0]
    /\ s_clean' = [s_clean EXCEPT ![t] = FALSE]

\* 2935-2941, 2955-2956: the size of the file and the ceiling, outside the lock
save_check(t) ==
    /\ spc[t] = "check"
    /\ IF ~Has(cache_files[s_version[t]])                                \* getsize raises
         THEN SaveLeaves(t)
         ELSE LET size == Val(cache_files[s_version[t]])
              IN  IF TotalCacheSize(forge_cache) + size > CacheMaxSize   \* 2939
                    THEN SaveLeaves(t)
                    ELSE /\ spc' = [spc EXCEPT ![t] = "insert"]
                         /\ file_size' = [file_size EXCEPT ![t] = size]
                         /\ UNCHANGED <<s_version, s_is_zip, s_clean>>
    /\ last_op' = OtherOp
    /\ UNCHANGED <<forge_cache, forge_cache_lock, cache_files, cache_now>>
    /\ UNCHANGED <<oldvars, gsvars, namevars, zipvars, cntvars, latevars>>

\* 2944-2954: the entry is built and stored under _forge_cache_lock
save_insert(t) ==
    /\ spc[t] = "insert"
    /\ forge_cache_lock = None
    /\ forge_cache' = [forge_cache EXCEPT
                          ![s_version[t]] = Entry(CacheInfo(s_version[t], s_is_zip[t],
                                                            file_size[t], cache_now))]
    /\ SaveLeaves(t)
    /\ last_op' = Op("save", s_version[t], Absent, TRUE, TRUE, TRUE, TRUE, s_clean[t])
    /\ UNCHANGED <<forge_cache_lock, cache_files, cache_now>>
    /\ UNCHANGED <<oldvars, gsvars, namevars, zipvars, cntvars, latevars>>

save_forge_to_cache(t) == save_call(t) \/ save_check(t) \/ save_insert(t)

\* A download (or anything else) writes the file of a version.
cache_file_write(v) ==
    /\ \E size \in 1..MaxFileSize : cache_files' = [cache_files EXCEPT ![v] = Entry(size)]
    /\ s_clean' = [t \in Savers |-> FALSE]
    /\ last_op' = OtherOp
    /\ UNCHANGED <<forge_cache, forge_cache_lock, cache_now, spc, s_version, s_is_zip, file_size>>
    /\ UNCHANGED <<oldvars, gsvars, namevars, zipvars, cntvars, latevars>>

\* The file of a version is deleted out-of-band.
cache_file_delete(v) ==
    /\ Has(cache_files[v])
    /\ cache_files' = [cache_files EXCEPT ![v] = Absent]
    /\ s_clean' = [t \in Savers |-> FALSE]
    /\ last_op' = OtherOp
    /\ UNCHANGED <<forge_cache, forge_cache_lock, cache_now, spc, s_version, s_is_zip, file_size>>
    /\ UNCHANGED <<oldvars, gsvars, namevars, zipvars, cntvars, latevars>>

\* Time passes.
cache_tick ==
    /\ cache_now < MaxCacheTime
    /\ cache_now' = cache_now + 1
    /\ s_clean' = [t \in Savers |-> FALSE]
    /\ last_op' = OtherOp
    /\ UNCHANGED <<forge_cache, forge_cache_lock, cache_files, spc, s_version, s_is_zip,
                   file_size>>
    /\ UNCHANGED <<oldvars, gsvars, namevars, zipvars, cntvars, latevars>>

NextCache ==
    \/ \E v \in Versions : get_forge_from_cache(v)
    \/ \E t \in Savers : save_forge_to_cache(t)
    \/ \E v \in Versions : cache_file_write(v) \/ cache_file_delete(v)
    \/ cache_tick

(***************************************************************************)
(* generate_server (src/app.py:2266-2412) from the request to the loader   *)
(* provisioner, and detect_loader (2419-2422).                             *)
(***************************************************************************)
\* 2420: the keys detect_loader looks for, in its order
LoaderKeys == <<"fabric-loader", "forge", "quilt-loader", "neoforge">>
DepKeys == {"minecraft", "fabric-loader", "forge", "quilt-loader", "neoforge"}

\* 2422: loader.split('-')[0]
SplitHead(key) ==
    IF key = "fabric-loader" THEN "fabric"
    ELSE IF key = "quilt-loader" THEN "quilt"
    ELSE key

\* 2419-2422: the first key of the list found in deps; None when the loop ends
detect_loader(d) ==
    IF \E i \in 1..Len(LoaderKeys) : LoaderKeys[i] \in d
      THEN SplitHead(LoaderKeys[CHOOSE i \in 1..Len(LoaderKeys) :
                          /\ LoaderKeys[i] \in d
                          /\ \A j \in 1..(i - 1) : LoaderKeys[j] \notin d])
      ELSE None

Uploads == [present : BOOLEAN, filename : {"", "pack.zip", "pack.mrpack"}, archive_ok : BOOLEAN]
Response(status, error) == [status |-> status, error |-> error]
NoResponse == Response(0, None)

InitGenerate ==
    /\ gs_pc = "idle"
    /\ upload = [present |-> FALSE, filename |-> "", archive_ok |-> FALSE]
    /\ deps = {}
    /\ loader_type = None
    /\ response = NoResponse
    /\ server_dir_created = FALSE
    /\ downloads_started = FALSE

Respond(status, error) ==
    /\ response' = Response(status, error)
    /\ gs_pc' = "responded"

\* 2266-2270: a request with a valid request_id arrives
generate_server_request ==
    /\ gs_pc = "idle"
    /\ \E u \in Uploads, d \in SUBSET DepKeys :
        /\ upload' = u
        /\ deps' = d
    /\ gs_pc' = "validate"
    /\ UNCHANGED <<loader_type, response, server_dir_created, downloads_started>>
    /\ UNCHANGED <<oldvars, cachevars, namevars, zipvars, cntvars, latevars>>

\* 2277-2286: the upload is checked
generate_server_validate ==
    /\ gs_pc = "validate"
    /\ IF ~upload.present THEN Respond(400, "No file uploaded")
       ELSE IF upload.filename = "" THEN Respond(400, "No filename provided")
       ELSE IF upload.filename # "pack.mrpack" THEN Respond(400, "Invalid file type")
       ELSE gs_pc' = "extract" /\ UNCHANGED response
    /\ UNCHANGED <<upload, deps, loader_type, server_dir_created, downloads_started>>
    /\ UNCHANGED <<oldvars, cachevars, namevars, zipvars, cntvars, latevars>>

\* 2298-2312, 2405-2412: the archive is extracted and the index read
generate_server_extract ==
    /\ gs_pc = "extract"
    /\ IF ~upload.archive_ok THEN Respond(500, "Internal server error")   \* BadZipFile
       ELSE gs_pc' = "detect" /\ UNCHANGED response
    /\ UNCHANGED <<upload, deps, loader_type, server_dir_created, downloads_started>>
    /\ UNCHANGED <<oldvars, cachevars, namevars, zipvars, cntvars, latevars>>

\* 2314, 2405-2412: loader_type, loader_version = detect_loader(deps); unpacking
\* None raises TypeError, whose text is not JSON
generate_server_detect ==
    /\ gs_pc = "detect"
    /\ loader_type' = detect_loader(deps)
    /\ IF detect_loader(deps) = None THEN Respond(500, "Internal server error")
       ELSE gs_pc' = "mkdir" /\ UNCHANGED response
    /\ UNCHANGED <<upload, deps, server_dir_created, downloads_started>>
    /\ UNCHANGED <<oldvars, cachevars, namevars, zipvars, cntvars, latevars>>

\* 2316-2330: the server directory is named and created
generate_server_mkdir ==
    /\ gs_pc = "mkdir"
    /\ server_dir_created' = TRUE
    /\ gs_pc' = "mods"
    /\ UNCHANGED <<upload, deps, loader_type, response, downloads_started>>
    /\ UNCHANGED <<oldvars, cachevars, namevars, zipvars, cntvars, latevars>>

\* 2332-2342: the mod downloads and the override copy
generate_server_mods_phase ==
    /\ gs_pc = "mods"
    /\ downloads_started' = TRUE
    /\ \/ gs_pc' = "provision" /\ UNCHANGED response
       \/ Respond(500, "Failed to download mods or copy overrides")
    /\ UNCHANGED <<upload, deps, loader_type, server_dir_created>>
    /\ UNCHANGED <<oldvars, cachevars, namevars, zipvars, cntvars, latevars>>

\* 2343-2404: the provisioner of the detected loader, the ZIP, the answer
generate_server_provision ==
    /\ gs_pc = "provision"
    /\ \/ Respond(200, None)
       \/ Respond(500, "error_data")
       \/ Respond(500, "Failed to create ZIP archive")
    /\ UNCHANGED <<upload, deps, loader_type, server_dir_created, downloads_started>>
    /\ UNCHANGED <<oldvars, cachevars, namevars, zipvars, cntvars, latevars>>

\* The answer is sent; the next request starts from scratch.
generate_server_end ==
    /\ gs_pc = "responded"
    /\ gs_pc' = "idle"
    /\ upload' = [present |-> FALSE, filename |-> "", archive_ok |-> FALSE]
    /\ deps' = {}
    /\ loader_type' = None
    /\ response' = NoResponse
    /\ server_dir_created' = FALSE
    /\ downloads_started' = FALSE
    /\ UNCHANGED <<oldvars, cachevars, namevars, zipvars, cntvars, latevars>>

NextGenerate ==
    \/ generate_server_request
    \/ generate_server_validate
    \/ generate_server_extract
    \/ generate_server_detect
    \/ generate_server_mkdir
    \/ generate_server_mods_phase
    \/ generate_server_provision
    \/ generate_server_end

(***************************************************************************)
(* The server directory name of generate_server (src/app.py:2316-2328).    *)
(* Strings are sequences of characters.                                    *)
(***************************************************************************)
NameChars == {"a", "-", "/"}
BaseNames == UNION {[1..k -> NameChars] : k \in 0..MaxBaseNameLen}
\* the request ids validate_request_id lets through
RequestIds == {r \in UNION {[1..k -> {"a", "-"}] : k \in 1..MaxNameIdLen} :
                  validate_request_id(r)[2] = None}

\* 2321: os.path.basename: what follows the last separator
RECURSIVE Basename(_)
Basename(str) ==
    IF str = <<>> THEN <<>>
    ELSE IF \E i \in 1..Len(str) : str[i] = "/"
      THEN Basename(Tail(str))
      ELSE str

\* 2322-2323: spaces and every character outside [a-zA-Z0-9_-] become "_"
Sanitize(str) == [i \in 1..Len(str) |-> IF IdChar(str[i]) THEN str[i] ELSE "_"]

\* 2324: base_name[:MAX_FILENAME_LENGTH]
Truncate(str) == IF Len(str) > MaxFilenameLen THEN SubSeq(str, 1, MaxFilenameLen) ELSE str

\* 2321-2325: safe_name
SafeName(base_name) ==
    LET n == Truncate(Sanitize(Basename(base_name)))
    IN  IF n = <<>> THEN <<"s", "e", "r", "v", "e", "r">> ELSE n

\* 2327: f"{safe_name}-{request_id}-MSFG"
ServerDirName(safe_name, request_id) ==
    safe_name \o <<"-">> \o request_id \o <<"-", "M", "S", "F", "G">>

NoRequest == [base_name |-> <<>>, request_id |-> <<>>, safe_name |-> <<>>]

InitName ==
    /\ n_pc = 0
    /\ req1 = NoRequest
    /\ req2 = NoRequest
    /\ dir1 = <<>>
    /\ dir2 = <<>>

\* 2316-2328 for a first request
name_first ==
    /\ n_pc = 0
    /\ \E b \in BaseNames, r \in RequestIds :
        /\ req1' = [base_name |-> b, request_id |-> r, safe_name |-> SafeName(b)]
        /\ dir1' = ServerDirName(SafeName(b), r)
    /\ n_pc' = 1
    /\ UNCHANGED <<req2, dir2>>
    /\ UNCHANGED <<oldvars, cachevars, gsvars, zipvars, cntvars, latevars>>

\* 2316-2328 for a second request
name_second ==
    /\ n_pc = 1
    /\ \E b \in BaseNames, r \in RequestIds :
        /\ req2' = [base_name |-> b, request_id |-> r, safe_name |-> SafeName(b)]
        /\ dir2' = ServerDirName(SafeName(b), r)
    /\ n_pc' = 2
    /\ UNCHANGED <<req1, dir1>>
    /\ UNCHANGED <<oldvars, cachevars, gsvars, zipvars, cntvars, latevars>>

\* Both requests are over.
name_reset ==
    /\ n_pc = 2
    /\ n_pc' = 0
    /\ req1' = NoRequest
    /\ req2' = NoRequest
    /\ dir1' = <<>>
    /\ dir2' = <<>>
    /\ UNCHANGED <<oldvars, cachevars, gsvars, zipvars, cntvars, latevars>>

NextName == name_first \/ name_second \/ name_reset

(***************************************************************************)
(* increment_generated_server_count (src/app.py:513-760), called under     *)
(* generated_server_lock (2378-2380).  Two callers are threads of one      *)
(* worker process, the third runs in another worker; all share the file.   *)
(***************************************************************************)
Callers == {"a1", "a2", "b1"}
Workers == {"A", "B"}
WorkerOf(c) == IF c = "b1" THEN "B" ELSE "A"

InitCount ==
    /\ kpc = [c \in Callers |-> "idle"]
    /\ generated_server_lock = [w \in Workers |-> None]
    /\ count_file = Absent
    /\ file_lock = None
    /\ current_count = [c \in Callers |-> 0]
    /\ new_count = [c \in Callers |-> 0]

\* 2378: with generated_server_lock
count_acquire(c) ==
    /\ kpc[c] = "idle"
    /\ generated_server_lock[WorkerOf(c)] = None
    /\ generated_server_lock' = [generated_server_lock EXCEPT ![WorkerOf(c)] = c]
    /\ kpc' = [kpc EXCEPT ![c] = "read"]
    /\ UNCHANGED <<count_file, file_lock, current_count, new_count>>
    /\ UNCHANGED <<oldvars, cachevars, gsvars, namevars, zipvars, latevars>>

\* 582-596: the file is read without any lock; empty content counts as 0
count_read(c) ==
    /\ kpc[c] = "read"
    /\ LET n == IF Has(count_file) /\ Val(count_file) # Missing THEN Val(count_file) ELSE 0
       IN  /\ current_count' = [current_count EXCEPT ![c] = n]
           /\ new_count' = [new_count EXCEPT ![c] = n + 1]
    /\ kpc' = [kpc EXCEPT ![c] = "open"]
    /\ UNCHANGED <<generated_server_lock, count_file, file_lock>>
    /\ UNCHANGED <<oldvars, cachevars, gsvars, namevars, zipvars, latevars>>

\* 695: open(count_file_path, 'w+') truncates the file
count_open(c) ==
    /\ kpc[c] = "open"
    /\ count_file' = Entry(Missing)
    /\ kpc' = [kpc EXCEPT ![c] = "lock"]
    /\ UNCHANGED <<generated_server_lock, file_lock, current_count, new_count>>
    /\ UNCHANGED <<oldvars, cachevars, gsvars, namevars, zipvars, latevars>>

\* 697: portalocker.Lock(f, timeout=LOCK_TIMEOUT)
count_lock(c) ==
    /\ kpc[c] = "lock"
    /\ file_lock = None
    /\ file_lock' = c
    /\ kpc' = [kpc EXCEPT ![c] = "write"]
    /\ UNCHANGED <<generated_server_lock, count_file, current_count, new_count>>
    /\ UNCHANGED <<oldvars, cachevars, gsvars, namevars, zipvars, latevars>>

\* 698-709: the new count is written and the file lock released
count_write(c) ==
    /\ kpc[c] = "write"
    /\ count_file' = Entry(new_count[c])
    /\ file_lock' = None
    /\ kpc' = [kpc EXCEPT ![c] = "release"]
    /\ UNCHANGED <<generated_server_lock, current_count, new_count>>
    /\ UNCHANGED <<oldvars, cachevars, gsvars, namevars, zipvars, latevars>>

\* 2378-2380: the function returns and generated_server_lock is released
count_release(c) ==
    /\ kpc[c] = "release"
    /\ generated_server_lock' = [generated_server_lock EXCEPT ![WorkerOf(c)] = None]
    /\ kpc' = [kpc EXCEPT ![c] = "done"]
    /\ UNCHANGED <<count_file, file_lock, current_count, new_count>>
    /\ UNCHANGED <<oldvars, cachevars, gsvars, namevars, zipvars, latevars>>

increment_generated_server_count(c) ==
    \/ count_acquire(c) \/ count_read(c) \/ count_open(c)
    \/ count_lock(c) \/ count_write(c) \/ count_release(c)

NextCount == \E c \in Callers : increment_generated_server_count(c)

(***************************************************************************)
(* download_zip (src/app.py:1814-1896) and delayed_cleanup (1119-1154)     *)
(* for one request_id, in one process.                                     *)
(***************************************************************************)
CLEANUP_DELAY == 300

Downloaders == {"d1", "d2", "d3"}
\* the temp file build_zip_to_tempfile creates for a download
ZipOf(d) == "zip_" \o d
GeneratedZip == "zip_gs"

StatusEntry(zp, scheduled) == [zip_path |-> zp, cleanup_scheduled |-> scheduled]

\* 1878: download_status[request_id].get("cleanup_scheduled")
AlreadyScheduled_never(entry) == FALSE
AlreadyScheduled(entry) == entry.cleanup_scheduled

NoCleanup == [zip_path |-> None, wake |-> 0, pc |-> "none"]

\* the delayed_cleanup threads that were started
Scheduled == {d \in Downloaders : cleanups[d].pc # "none"}

InitZip ==
    /\ zpc = [d \in Downloaders |-> "idle"]
    /\ zip_path = [d \in Downloaders |-> None]
    /\ download_status = Absent
    /\ zip_files = {}
    /\ server_dir_exists = FALSE
    /\ cleanups = [d \in Downloaders |-> NoCleanup]
    /\ z_now = 0
    /\ responses = {}
    /\ tracked = FALSE
    /\ deleted_at = Missing

ZipRespond(d, status) ==
    /\ responses' = responses \cup {[by |-> d, status |-> status, at |-> z_now]}
    /\ zpc' = [zpc EXCEPT ![d] = "done"]

\* generate_server 2330-2395 has built directory and ZIP and recorded them; or the
\* process was restarted since, and only the directory is left.
zip_generated ==
    /\ ~server_dir_exists /\ deleted_at = Missing /\ z_now = 0
    /\ server_dir_exists' = TRUE
    /\ zip_files' = {GeneratedZip}
    /\ \E restarted \in BOOLEAN :
        /\ download_status' = IF restarted THEN Absent
                              ELSE Entry(StatusEntry(GeneratedZip, FALSE))
        /\ tracked' = ~restarted
    /\ UNCHANGED <<zpc, zip_path, cleanups, z_now, responses, deleted_at>>
    /\ UNCHANGED <<oldvars, cachevars, gsvars, namevars, cntvars, latevars>>

\* 1824-1846: the server directory is looked up
zip_find(d) ==
    /\ zpc[d] = "idle"
    /\ server_dir_exists \/ deleted_at # Missing
    /\ IF server_dir_exists
         THEN zpc' = [zpc EXCEPT ![d] = "found"] /\ UNCHANGED responses
         ELSE ZipRespond(d, 404)
    /\ UNCHANGED <<zip_path, download_status, zip_files, server_dir_exists, cleanups, z_now,
                   tracked, deleted_at>>
    /\ UNCHANGED <<oldvars, cachevars, gsvars, namevars, cntvars, latevars>>

\* 1858-1865: under download_status_lock the recorded ZIP is taken or a new one built;
\* build_zip_to_tempfile raises when the directory is gone (1894-1896: 500)
zip_lookup(d) ==
    /\ zpc[d] = "found"
    /\ IF Has(download_status)
         THEN /\ zip_path' = [zip_path EXCEPT ![d] = Val(download_status).zip_path]
              /\ zpc' = [zpc EXCEPT ![d] = "have_zip"]
              /\ UNCHANGED <<download_status, zip_files, responses>>
         ELSE IF server_dir_exists
           THEN /\ zip_path' = [zip_path EXCEPT ![d] = ZipOf(d)]
                /\ zip_files' = zip_files \cup {ZipOf(d)}
                /\ download_status' = Entry(StatusEntry(ZipOf(d), FALSE))
                /\ zpc' = [zpc EXCEPT ![d] = "have_zip"]
                /\ UNCHANGED responses
           ELSE /\ ZipRespond(d, 500)
                /\ UNCHANGED <<zip_path, download_status, zip_files>>
    /\ UNCHANGED <<server_dir_exists, cleanups, z_now, tracked, deleted_at>>
    /\ UNCHANGED <<oldvars, cachevars, gsvars, namevars, cntvars, latevars>>

\* 1867-1873: the ZIP must exist; then schedule_cleanup is registered (1875)
zip_check(d) ==
    /\ zpc[d] = "have_zip"
    /\ IF zip_path[d] \in zip_files
         THEN zpc' = [zpc EXCEPT ![d] = "send"] /\ UNCHANGED responses
         ELSE ZipRespond(d, 500)
    /\ UNCHANGED <<zip_path, download_status, zip_files, server_dir_exists, cleanups, z_now,
                   tracked, deleted_at>>
    /\ UNCHANGED <<oldvars, cachevars, gsvars, namevars, cntvars, latevars>>

\* 1887-1896: send_file produces the response, or raises and the handler answers 500
zip_send(d) ==
    /\ zpc[d] = "send"
    /\ \E ok \in BOOLEAN :
        /\ ok => zip_path[d] \in zip_files
        /\ responses' = responses \cup
              {[by |-> d, status |-> IF ok THEN 200 ELSE 500, at |-> z_now]}
    /\ zpc' = [zpc EXCEPT ![d] = "after"]
    /\ UNCHANGED <<zip_path, download_status, zip_files, server_dir_exists, cleanups, z_now,
                   tracked, deleted_at>>
    /\ UNCHANGED <<oldvars, cachevars, gsvars, namevars, cntvars, latevars>>

\* 1875-1885: schedule_cleanup runs on the response, under download_status_lock;
\* a deleted entry raises KeyError
zip_after(d) ==
    /\ zpc[d] = "after"
    /\ IF Has(download_status) /\ ~AlreadyScheduled(Val(download_status))
         THEN /\ cleanups' = [cleanups EXCEPT ![d] = [zip_path |-> zip_path[d],
                                                      wake |-> z_now + CLEANUP_DELAY,
                                                      pc |-> "sleep"]]
              /\ download_status' = Entry([Val(download_status) EXCEPT
                                              !.cleanup_scheduled = TRUE])
         ELSE UNCHANGED <<cleanups, download_status>>
    /\ zpc' = [zpc EXCEPT ![d] = "done"]
    /\ UNCHANGED <<zip_path, zip_files, server_dir_exists, z_now, responses, tracked,
                   deleted_at>>
    /\ UNCHANGED <<oldvars, cachevars, gsvars, namevars, cntvars, latevars>>

download_zip(d) ==
    zip_find(d) \/ zip_lookup(d) \/ zip_check(d) \/ zip_send(d) \/ zip_after(d)

Deleted == IF deleted_at = Missing THEN z_now ELSE deleted_at

\* 1121: time.sleep(delay) is over
cleanup_wake(i) ==
    /\ cleanups[i].pc = "sleep"
    /\ z_now >= cleanups[i].wake
    /\ cleanups' = [cleanups EXCEPT ![i].pc = "rm_zip"]
    /\ UNCHANGED <<zpc, zip_path, download_status, zip_files, server_dir_exists, z_now,
                   responses, tracked, deleted_at>>
    /\ UNCHANGED <<oldvars, cachevars, gsvars, namevars, cntvars, latevars>>

\* 1124-1127: os.remove(zip_path)
cleanup_rm_zip(i) ==
    /\ cleanups[i].pc = "rm_zip"
    /\ IF cleanups[i].zip_path \in zip_files
         THEN /\ zip_files' = zip_files \ {cleanups[i].zip_path}
              /\ deleted_at' = Deleted
         ELSE UNCHANGED <<zip_files, deleted_at>>
    /\ cleanups' = [cleanups EXCEPT ![i].pc = "rm_dir"]
    /\ UNCHANGED <<zpc, zip_path, download_status, server_dir_exists, z_now, responses,
                   tracked>>
    /\ UNCHANGED <<oldvars, cachevars, gsvars, namevars, cntvars, latevars>>

\* 1129-1132: shutil.rmtree(server_dir)
cleanup_rm_dir(i) ==
    /\ cleanups[i].pc = "rm_dir"
    /\ IF server_dir_exists
         THEN server_dir_exists' = FALSE /\ deleted_at' = Deleted
         ELSE UNCHANGED <<server_dir_exists, deleted_at>>
    /\ cleanups' = [cleanups EXCEPT ![i].pc = "untrack"]
    /\ UNCHANGED <<zpc, zip_path, download_status, zip_files, z_now, responses, tracked>>
    /\ UNCHANGED <<oldvars, cachevars, gsvars, namevars, cntvars, latevars>>

\* 1137-1152: the request's tracking is dropped if it is still in log_locks
cleanup_untrack(i) ==
    /\ cleanups[i].pc = "untrack"
    /\ IF tracked
         THEN download_status' = Absent /\ tracked' = FALSE
         ELSE UNCHANGED <<download_status, tracked>>
    /\ cleanups' = [cleanups EXCEPT ![i].pc = "done"]
    /\ UNCHANGED <<zpc, zip_path, zip_files, server_dir_exists, z_now, responses,
                   deleted_at>>
    /\ UNCHANGED <<oldvars, cachevars, gsvars, namevars, cntvars, latevars>>

cleanup_thread(i) ==
    cleanup_wake(i) \/ cleanup_rm_zip(i) \/ cleanup_rm_dir(i) \/ cleanup_untrack(i)

\* Time passes.
zip_tick ==
    /\ z_now + ZipTick <= MaxZipTime
    /\ z_now' = z_now + ZipTick
    /\ UNCHANGED <<zpc, zip_path, download_status, zip_files, server_dir_exists, cleanups,
                   responses, tracked, deleted_at>>
    /\ UNCHANGED <<oldvars, cachevars, gsvars, namevars, cntvars, latevars>>

NextZip ==
    \/ zip_generated
    \/ \E d \in Downloaders : download_zip(d)
    \/ \E d \in Downloaders : cleanup_thread(d)
    \/ zip_tick

(***************************************************************************)
(* build_zip_to_tempfile (src/app.py:1747-1810).                           *)
(***************************************************************************)
nonpack == <<oldvars, midvars, lkvars, artvars, lastvars>>

\* A file of the walk: "plain"; "dotted" when its relative path contains '..' (1786);
\* "unreadable" when os.path.getsize raises OSError (1780).
FileKinds == {"plain", "dotted", "unreadable"}
WalkFiles == [kind : FileKinds, size : 1..2]
Listings == UNION {[1..k -> WalkFiles] : k \in 0..MaxDirFiles}

\* 1770: if file_count >= max_files
OverLimit_after(n) == n > MaxFiles
OverLimit(n) == n >= MaxFiles

InitPack ==
    /\ pk_pc = "idle"
    /\ pk_dir_exists = FALSE
    /\ pk_files = <<>>
    /\ pk_i = 0
    /\ file_count = 0
    /\ total_size = 0
    /\ temp_zip = FALSE
    /\ zf = 0
    /\ pk_result = "none"

\* 1799-1807: except Exception: the temp file is removed, RuntimeError raised
PackFails ==
    /\ temp_zip' = FALSE
    /\ pk_result' = "RuntimeError"
    /\ pk_pc' = "done"

\* 1747-1766: the call; a missing directory raises ValueError before the try
build_zip_call ==
    /\ pk_pc = "idle"
    /\ \E exists \in BOOLEAN, files \in Listings :
        /\ pk_dir_exists' = exists
        /\ pk_files' = IF exists THEN files ELSE <<>>
        /\ IF exists
             THEN /\ temp_zip' = TRUE
                  /\ pk_pc' = "walk"
                  /\ pk_result' = "none"
             ELSE /\ temp_zip' = FALSE
                  /\ pk_pc' = "done"
                  /\ pk_result' = "ValueError"
    /\ pk_i' = 1
    /\ file_count' = 0
    /\ total_size' = 0
    /\ zf' = 0
    /\ UNCHANGED nonpack

\* 1768-1793: one file of the walk
build_zip_file ==
    /\ pk_pc = "walk"
    /\ pk_i <= Len(pk_files)
    /\ LET f == pk_files[pk_i]
           size == IF f.kind = "unreadable" THEN total_size ELSE total_size + f.size
       IN  IF OverLimit(file_count)
             THEN PackFails /\ UNCHANGED <<pk_i, file_count, total_size, zf>>
           ELSE IF size > MaxZipBytes
             THEN PackFails /\ total_size' = size /\ UNCHANGED <<pk_i, file_count, zf>>
           ELSE /\ total_size' = size
                /\ pk_i' = pk_i + 1
                /\ IF f.kind = "plain"
                     THEN file_count' = file_count + 1 /\ zf' = zf + 1
                     ELSE UNCHANGED <<file_count, zf>>
                /\ UNCHANGED <<pk_pc, temp_zip, pk_result>>
    /\ UNCHANGED <<pk_dir_exists, pk_files>>
    /\ UNCHANGED nonpack

\* 1795-1797: the walk is over; temp_zip_path is returned
build_zip_return ==
    /\ pk_pc = "walk"
    /\ pk_i > Len(pk_files)
    /\ pk_result' = "returned"
    /\ pk_pc' = "done"
    /\ UNCHANGED <<pk_dir_exists, pk_files, pk_i, file_count, total_size, temp_zip, zf>>
    /\ UNCHANGED nonpack

\* The caller has the result; the next call starts afresh.
build_zip_over ==
    /\ pk_pc = "done"
    /\ pk_pc' = "idle"
    /\ pk_dir_exists' = FALSE
    /\ pk_files' = <<>>
    /\ pk_i' = 0
    /\ file_count' = 0
    /\ total_size' = 0
    /\ temp_zip' = FALSE
    /\ zf' = 0
    /\ pk_result' = "none"
    /\ UNCHANGED nonpack

NextPack == build_zip_call \/ build_zip_file \/ build_zip_return \/ build_zip_over

(***************************************************************************)
(* The users of the locks: log_locks[request_id] ("L"),                    *)
(* _log_buffer_creation_lock ("C"), download_status_lock ("D") and         *)
(* generated_server_lock ("G"), all threading.Lock objects                 *)
(* (src/app.py:25).  A thread is the sequence of lock operations, and of   *)
(* blocking calls made under a lock, of one path through its function.     *)
(***************************************************************************)
nonlk == <<oldvars, midvars, packvars, artvars, lastvars>>

LockNames == {"L", "C", "D", "G"}
Threads == {"push_log", "stream_logs", "generate_server", "download_zip",
            "delayed_cleanup", "cleanup_old_log_buffers"}

Acq(l) == <<"acq", l>>
Rel(l) == <<"rel", l>>
Io(what) == <<"io", what>>

\* 2131-2145: push_log: the creation block when the key is absent, then the buffer
PushLogOps == { <<Acq("C"), Rel("C"), Acq("L"), Rel("L")>>,
                <<Acq("L"), Rel("L")>> }

\* 75, 85: WebLogHandler.emit calls push_log when the thread's _thread_local has a
\* request_id; generate_server sets it (2273) and clears it (2413-2416)
RequestIdSet_all(t) == TRUE
RequestIdSet(t) == t = "generate_server"

\* a logging call made by thread t: through emit into push_log, or console only
LoggingOps(t) == IF RequestIdSet(t) THEN PushLogOps ELSE {<<>>}

\* 2169-2212: generate: the buffer is created, the buffered lines are yielded under
\* the lock, then a poll
StreamOps ==
    { <<Acq("L"), Rel("L"), Acq("L"), Io("yield"), Rel("L"), Acq("L"), Rel("L")>> }

\* 2290-2395: generate_server: early initialisation; the count under
\* generated_server_lock with the push_log of 2380 (the key is in log_locks since
\* 2291); download_status
GenerateServerOps ==
    { <<Acq("L"), Rel("L"), Acq("G"), Io("count file"), Acq("L"), Rel("L"), Rel("G"),
        Acq("D"), Rel("D")>> }

\* 1858-1885: download_zip: the ZIP taken or built under download_status_lock (with
\* the logging.info of 1795), then schedule_cleanup
DownloadZipOps ==
    { <<Acq("D"), Io("zip build")>> \o p \o <<Rel("D"), Acq("D"), Rel("D")>> :
          p \in LoggingOps("download_zip") }
    \cup { <<Acq("D"), Rel("D"), Acq("D"), Rel("D")>> }

\* 1137-1152: delayed_cleanup, after its sleep and the removal of the files
DelayedCleanupOps ==
    { <<Acq("C"), Acq("D"), Rel("D"), Acq("L"), Rel("L"), Rel("C")>>,
      <<Acq("C"), Rel("C")>> }

\* 1162-1180: cleanup_old_log_buffers, for the one request_id
CleanupOldOps ==
    { <<Acq("C"), Acq("L"), Acq("D"), Rel("D"), Rel("L"), Rel("C")>>,
      <<Acq("C"), Acq("L"), Rel("L"), Rel("C")>> }

Programs(t) ==
    CASE t = "push_log" -> PushLogOps
      [] t = "stream_logs" -> StreamOps
      [] t = "generate_server" -> GenerateServerOps
      [] t = "download_zip" -> DownloadZipOps
      [] t = "delayed_cleanup" -> DelayedCleanupOps
      [] t = "cleanup_old_log_buffers" -> CleanupOldOps

InitLocks ==
    /\ lk_prog = [t \in Threads |-> <<>>]
    /\ lk_pc = [t \in Threads |-> 0]
    /\ lk_owner = [l \in LockNames |-> None]

Running(t) == lk_pc[t] >= 1 /\ lk_pc[t] <= Len(lk_prog[t])
NextOp(t) == lk_prog[t][lk_pc[t]]
Held(t) == {l \in LockNames : lk_owner[l] = t}

\* the function is called; the data decide which path it takes
lk_start(t) ==
    /\ lk_pc[t] = 0
    /\ \E prog \in Programs(t) : lk_prog' = [lk_prog EXCEPT ![t] = prog]
    /\ lk_pc' = [lk_pc EXCEPT ![t] = 1]
    /\ UNCHANGED lk_owner
    /\ UNCHANGED nonlk

\* with <lock>: entered when the lock is free
lk_acquire(t) ==
    /\ Running(t)
    /\ NextOp(t)[1] = "acq"
    /\ lk_owner[NextOp(t)[2]] = None
    /\ lk_owner' = [lk_owner EXCEPT ![NextOp(t)[2]] = t]
    /\ lk_pc' = [lk_pc EXCEPT ![t] = @ + 1]
    /\ UNCHANGED lk_prog
    /\ UNCHANGED nonlk

\* the with block is left
lk_release(t) ==
    /\ Running(t)
    /\ NextOp(t)[1] = "rel"
    /\ lk_owner' = [lk_owner EXCEPT ![NextOp(t)[2]] = None]
    /\ lk_pc' = [lk_pc EXCEPT ![t] = @ + 1]
    /\ UNCHANGED lk_prog
    /\ UNCHANGED nonlk

\* a file, network, sleep or client-stream operation returns
lk_io(t) ==
    /\ Running(t)
    /\ NextOp(t)[1] = "io"
    /\ lk_pc' = [lk_pc EXCEPT ![t] = @ + 1]
    /\ UNCHANGED <<lk_prog, lk_owner>>
    /\ UNCHANGED nonlk

NextLocks == \E t \in Threads : lk_start(t) \/ lk_acquire(t) \/ lk_release(t) \/ lk_io(t)

(***************************************************************************)
(* The artifact files of the cache directory: the ZIP branch of            *)
(* setup_forge (src/app.py:3107-3258) and setup_quilt (3792, 3947-4012),   *)
(* two requests for one version string <mc_version>-<loader_version>.      *)
(***************************************************************************)
nonart == <<oldvars, midvars, packvars, lkvars, lastvars>>

ArtLoaders == {"forge", "quilt"}
Requests == {"r1", "r2"}

\* stands for MIN_INSTALLER_SIZE (50), in chunks
MinArtSize == 1

\* a file of the cache directory: its size, the requests writing to it, its mtime
ArtFile(size, writers, written) == [size |-> size, writers |-> writers, written |-> written]

\* what a request read: whose file, its size, who was still writing it, its age
Used(loader, f, r) ==
    [loader |-> loader, size |-> f.size, writers |-> f.writers \ {r},
     age |-> a_now - f.written]

InitArt ==
    /\ a_pc = [r \in Requests |-> "idle"]
    /\ a_loader = [r \in Requests |-> None]
    /\ a_dtc = [r \in Requests |-> FALSE]
    /\ a_used = [r \in Requests |-> Absent]
    /\ a_result = [r \in Requests |-> "none"]
    /\ art_files = [l \in ArtLoaders |-> Absent]
    /\ art_meta = Absent
    /\ a_now = 0

ArtLeave(r, result) ==
    /\ a_result' = [a_result EXCEPT ![r] = result]
    /\ a_pc' = [a_pc EXCEPT ![r] = "done"]

\* 3100-3108, 3786-3792: setup_forge or setup_quilt is called
art_call(r) ==
    /\ a_pc[r] = "idle"
    /\ \E l \in ArtLoaders :
        /\ a_loader' = [a_loader EXCEPT ![r] = l]
        /\ a_pc' = [a_pc EXCEPT ![r] = IF l = "forge" THEN "lookup" ELSE "exists"]
    /\ a_dtc' = [a_dtc EXCEPT ![r] = FALSE]
    /\ a_used' = [a_used EXCEPT ![r] = Absent]
    /\ a_result' = [a_result EXCEPT ![r] = "none"]
    /\ UNCHANGED <<art_files, art_meta, a_now>>
    /\ UNCHANGED nonart

\* 3120-3135 with 2906-2929: setup_forge asks _get_forge_from_cache(version) and
\* copies the file of the entry it gets
art_lookup(r) ==
    /\ a_pc[r] = "lookup"
    /\ IF Has(art_meta) /\ Has(art_files[Val(art_meta).loader])
         THEN LET e == Val(art_meta)
                  f == Val(art_files[e.loader])
              IN  IF Fresh(a_now - e.timestamp)
                    THEN IF f.size = e.size
                           THEN /\ a_used' = [a_used EXCEPT ![r] = Entry(Used(e.loader, f, r))]
                                /\ ArtLeave(r, "ok")
                                /\ UNCHANGED <<art_files, art_meta>>
                           ELSE /\ a_pc' = [a_pc EXCEPT ![r] = "exists"]
                                /\ UNCHANGED <<a_used, a_result, art_files, art_meta>>
                    ELSE /\ art_files' = [art_files EXCEPT ![e.loader] = Absent]
                         /\ art_meta' = Absent
                         /\ a_pc' = [a_pc EXCEPT ![r] = "exists"]
                         /\ UNCHANGED <<a_used, a_result>>
         ELSE /\ a_pc' = [a_pc EXCEPT ![r] = "exists"]
              /\ UNCHANGED <<a_used, a_result, art_files, art_meta>>
    /\ UNCHANGED <<a_loader, a_dtc, a_now>>
    /\ UNCHANGED nonart

\* 3197, 3951: download_to_cache = not os.path.exists(cache_zip_path)
art_exists(r) ==
    /\ a_pc[r] = "exists"
    /\ a_dtc' = [a_dtc EXCEPT ![r] = ~Has(art_files[a_loader[r]])]
    /\ a_pc' = [a_pc EXCEPT ![r] = IF Has(art_files[a_loader[r]]) THEN "validate" ELSE "open"]
    /\ UNCHANGED <<a_loader, a_used, a_result, art_files, art_meta, a_now>>
    /\ UNCHANGED nonart

\* 3202 with 2481: download_to_file opens the cache path itself for writing
art_open(r) ==
    /\ a_pc[r] = "open"
    /\ LET old == art_files[a_loader[r]]
           ws == IF Has(old) THEN Val(old).writers ELSE {}
       IN  art_files' = [art_files EXCEPT ![a_loader[r]] =
                            Entry(ArtFile(0, ws \cup {r}, a_now))]
    /\ a_pc' = [a_pc EXCEPT ![r] = "chunk"]
    /\ UNCHANGED <<a_loader, a_dtc, a_used, a_result, art_meta, a_now>>
    /\ UNCHANGED nonart

\* 2482-2512: a chunk is written, or the download fails and dest is removed
art_chunk(r) ==
    /\ a_pc[r] = "chunk"
    /\ LET l == a_loader[r]
           mine == Has(art_files[l]) /\ r \in Val(art_files[l]).writers
           f == Val(art_files[l])
       IN  \/ /\ mine /\ f.size < ArtSize
              /\ art_files' = [art_files EXCEPT ![l] =
                                  Entry(ArtFile(f.size + 1, f.writers, a_now))]
              /\ UNCHANGED <<a_pc, a_result>>
           \/ /\ mine /\ f.size = ArtSize
              /\ art_files' = [art_files EXCEPT ![l] =
                                  Entry(ArtFile(f.size, f.writers \ {r}, f.written))]
              /\ a_pc' = [a_pc EXCEPT ![r] = "validate"]
              /\ UNCHANGED a_result
           \/ /\ ~mine
              /\ a_pc' = [a_pc EXCEPT ![r] = "validate"]
              /\ UNCHANGED <<art_files, a_result>>
           \/ /\ art_files' = [art_files EXCEPT ![l] = Absent]
              /\ ArtLeave(r, "error")
    /\ UNCHANGED <<a_loader, a_dtc, a_used, art_meta, a_now>>
    /\ UNCHANGED nonart

\* 3215-3241, 3969-3995: the file must exist and not be too small; a fresh download
\* is registered with _save_forge_to_cache(version, ...)
art_validate(r) ==
    /\ a_pc[r] = "validate"
    /\ LET l == a_loader[r]
       IN  IF ~Has(art_files[l])
             THEN ArtLeave(r, "error") /\ UNCHANGED <<a_used, art_files, art_meta>>
           ELSE LET f == Val(art_files[l])
                IN  IF f.size < MinArtSize
                      THEN /\ ArtLeave(r, "error")
                           /\ art_files' = IF a_dtc[r] THEN [art_files EXCEPT ![l] = Absent]
                                           ELSE art_files
                           /\ a_used' = [a_used EXCEPT ![r] = Entry(Used(l, f, r))]
                           /\ UNCHANGED art_meta
                      ELSE /\ a_used' = [a_used EXCEPT ![r] = Entry(Used(l, f, r))]
                           /\ art_meta' = IF a_dtc[r]
                                            THEN Entry([loader |-> l, size |-> f.size,
                                                        timestamp |-> a_now])
                                            ELSE art_meta
                           /\ a_pc' = [a_pc EXCEPT ![r] = "extract"]
                           /\ UNCHANGED <<a_result, art_files>>
    /\ UNCHANGED <<a_loader, a_dtc, a_now>>
    /\ UNCHANGED nonart

\* 3244-3258, 3998-4012: the ZIP is opened, tested and extracted
art_extract(r) ==
    /\ a_pc[r] = "extract"
    /\ LET l == a_loader[r]
       IN  IF ~Has(art_files[l])
             THEN ArtLeave(r, "error") /\ UNCHANGED a_used
           ELSE /\ a_used' = [a_used EXCEPT ![r] = Entry(Used(l, Val(art_files[l]), r))]
                /\ ArtLeave(r, IF Val(art_files[l]).size = ArtSize THEN "ok" ELSE "error")
    /\ UNCHANGED <<a_loader, a_dtc, art_files, art_meta, a_now>>
    /\ UNCHANGED nonart

\* The request is answered; the next one may come.
art_return(r) ==
    /\ a_pc[r] = "done"
    /\ a_pc' = [a_pc EXCEPT ![r] = "idle"]
    /\ a_loader' = [a_loader EXCEPT ![r] = None]
    /\ a_dtc' = [a_dtc EXCEPT ![r] = FALSE]
    /\ a_used' = [a_used EXCEPT ![r] = Absent]
    /\ a_result' = [a_result EXCEPT ![r] = "none"]
    /\ UNCHANGED <<art_files, art_meta, a_now>>
    /\ UNCHANGED nonart

\* 191: the process is restarted: _forge_cache is empty again, the files stay
art_restart ==
    /\ \A r \in Requests : a_pc[r] = "idle"
    /\ Has(art_meta)
    /\ art_meta' = Absent
    /\ UNCHANGED <<a_pc, a_loader, a_dtc, a_used, a_result, art_files, a_now>>
    /\ UNCHANGED nonart

\* Time passes.
art_tick ==
    /\ a_now < MaxArtTime
    /\ a_now' = a_now + 1
    /\ UNCHANGED <<a_pc, a_loader, a_dtc, a_used, a_result, art_files, art_meta>>
    /\ UNCHANGED nonart

setup_cached(r) ==
    \/ art_call(r) \/ art_lookup(r) \/ art_exists(r) \/ art_open(r) \/ art_chunk(r)
    \/ art_validate(r) \/ art_extract(r) \/ art_return(r)

NextArt == (\E r \in Requests : setup_cached(r)) \/ art_restart \/ art_tick

(***************************************************************************)
(* The mod downloads of parallel_download_and_copy_async                   *)
(* (src/app.py:1619-1682) with the destination paths of the tasks.  A file *)
(* name is the part of the path before ".jar", a sequence of characters.   *)
(***************************************************************************)
prevvars == <<oldvars, midvars, packvars, lkvars, artvars>>

nonfan == <<prevvars, supvars, qbvars, plvars, relvars, savevars, findvars>>

\* the names of the index: "a", " " and "_"; Skipped stands for an entry the loop
\* passes over (no downloads, a bad URL, not under mods/, not a .jar)
ModNames == {<<"a">>, <<" ">>, <<"_">>}
Skipped == <<>>
IndexFiles == UNION {[1..k -> ModNames \cup {Skipped}] : k \in 0..MaxIndexFiles}

\* 1657: re.sub(r'[^a-zA-Z0-9._-]', '_', filename)
ModSanitize(str) ==
    [i \in 1..Len(str) |-> IF IdChar(str[i]) \/ str[i] = "." THEN str[i] ELSE "_"]

DestPaths == {ModSanitize(m) : m \in ModNames}

FanTask(dp, pc) == [dest |-> dp, pc |-> pc]

\* a coroutine that has started and has not returned or raised
InFlight(t) == t.pc \in {"requesting", "streaming"}

InitFan ==
    /\ fan_pc = "idle"
    /\ fan_files = <<>>
    /\ fan_i = 1
    /\ fan_tasks = <<>>
    /\ fan_dir = [d \in DestPaths |-> Absent]

\* 1619-1637: the call, with the index and what mods_dst_dir already holds
fan_call ==
    /\ fan_pc = "idle"
    /\ \E fs \in IndexFiles, old \in SUBSET DestPaths :
        /\ fan_files' = fs
        /\ fan_dir' = [d \in DestPaths |-> IF d \in old THEN Entry(0) ELSE Absent]
    /\ fan_i' = 1
    /\ fan_tasks' = <<>>
    /\ fan_pc' = "loop"
    /\ UNCHANGED nonfan

\* 1638-1673: one entry of the index; 1675-1676: after the last one
fan_entry ==
    /\ fan_pc = "loop"
    /\ IF fan_i > Len(fan_files)
         THEN /\ fan_pc' = IF fan_tasks = <<>> THEN "done" ELSE "gather"
              /\ UNCHANGED <<fan_i, fan_tasks>>
         ELSE /\ fan_i' = fan_i + 1
              /\ fan_pc' = fan_pc
              /\ LET file_info == fan_files[fan_i]
                     dest_path == ModSanitize(file_info)
                 IN  IF file_info = Skipped \/ Has(fan_dir[dest_path])     \* 1640-1670
                       THEN UNCHANGED fan_tasks
                       ELSE fan_tasks' = Append(fan_tasks, FanTask(dest_path, "queued"))
    /\ UNCHANGED <<fan_files, fan_dir>>
    /\ UNCHANGED nonfan

\* 1678, 1588-1589: gather schedules every coroutine; it runs up to session.get
fan_request(i) ==
    /\ fan_pc = "gather"
    /\ i <= Len(fan_tasks)
    /\ fan_tasks[i].pc = "queued"
    /\ fan_tasks' = [fan_tasks EXCEPT ![i].pc = "requesting"]
    /\ UNCHANGED <<fan_pc, fan_files, fan_i, fan_dir>>
    /\ UNCHANGED nonfan

\* 1589-1599: the response arrives and dest_path is opened for writing, or 1608-1616
fan_open(i) ==
    /\ fan_pc = "gather"
    /\ i <= Len(fan_tasks)
    /\ fan_tasks[i].pc = "requesting"
    /\ \/ /\ fan_tasks' = [fan_tasks EXCEPT ![i].pc = "streaming"]
          /\ fan_dir' = [fan_dir EXCEPT ![fan_tasks[i].dest] = Entry(i)]
       \/ /\ fan_tasks' = [fan_tasks EXCEPT ![i].pc = "raised"]
          /\ fan_dir' = [fan_dir EXCEPT ![fan_tasks[i].dest] = RemoveIfExists(@)]
    /\ UNCHANGED <<fan_pc, fan_files, fan_i>>
    /\ UNCHANGED nonfan

\* 1600-1607: the body is written, or 1608-1616: the download breaks
fan_finish(i) ==
    /\ fan_pc = "gather"
    /\ i <= Len(fan_tasks)
    /\ fan_tasks[i].pc = "streaming"
    /\ \/ /\ fan_tasks' = [fan_tasks EXCEPT ![i].pc = "ok"]
          /\ UNCHANGED fan_dir
       \/ /\ fan_tasks' = [fan_tasks EXCEPT ![i].pc = "raised"]
          /\ fan_dir' = [fan_dir EXCEPT ![fan_tasks[i].dest] = RemoveIfExists(@)]
    /\ UNCHANGED <<fan_pc, fan_files, fan_i>>
    /\ UNCHANGED nonfan

\* 1678-1682: gather returns when every task is done
fan_gathered ==
    /\ fan_pc = "gather"
    /\ \A i \in 1..Len(fan_tasks) : fan_tasks[i].pc \in {"ok", "raised"}
    /\ fan_pc' = "done"
    /\ UNCHANGED <<fan_files, fan_i, fan_tasks, fan_dir>>
    /\ UNCHANGED nonfan

\* The request is over; the next one may come.
fan_return ==
    /\ fan_pc = "done"
    /\ fan_pc' = "idle"
    /\ fan_files' = <<>>
    /\ fan_i' = 1
    /\ fan_tasks' = <<>>
    /\ fan_dir' = [d \in DestPaths |-> Absent]
    /\ UNCHANGED nonfan

FanSlots == 1..MaxIndexFiles

NextFan ==
    \/ fan_call \/ fan_entry
    \/ \E i \in FanSlots : fan_request(i) \/ fan_open(i) \/ fan_finish(i)
    \/ fan_gathered \/ fan_return

(***************************************************************************)
(* The provisioner's wait for run_installer: setup_fabric (2647-2694) and  *)
(* setup_neoforge (3521-3568).  run_installer runs in a Process p of its   *)
(* own; the vendor installer is a child of that process.                   *)
(***************************************************************************)
nonwait == <<logvars, valvars, provvars, dlvars, batvars, midvars, packvars, lkvars,
             artvars, fanvars, qbvars, plvars, relvars, savevars, findvars>>

\* 2655, 3529
max_wait_time == IF is_neoforge THEN NEOFORGE_TIMEOUT ELSE FABRIC_MAX_WAIT

\* p.is_alive()
PAlive == rpc \notin {"r_idle", "r_done", "r_killed"}

InitWait ==
    /\ w_pc = "w_idle"
    /\ w_start = 0

\* 2648-2656: p.start(), start_time = time.time()
wait_start ==
    /\ w_pc = "w_idle"
    /\ rpc = "r_java"
    /\ w_pc' = "w_wait"
    /\ w_start' = now
    /\ UNCHANGED insvars
    /\ UNCHANGED nonwait

\* 2661-2670: the result tuple is taken from the queue, or 2674-2675: p has ended
wait_result ==
    /\ w_pc = "w_wait"
    /\ HasResult(queue)
    /\ w_pc' = "w_result"
    /\ UNCHANGED <<w_start, insvars>>
    /\ UNCHANGED nonwait

\* 2658, 2684-2694: the wait limit has passed and p is still alive after join:
\* p.terminate() and the timeout error
wait_timeout ==
    /\ w_pc = "w_wait"
    /\ PAlive
    /\ ~(now - w_start < max_wait_time)
    /\ rpc' = "r_killed"
    /\ w_pc' = "w_raised"
    /\ UNCHANGED <<now, java_exists, is_neoforge, start_time, last_output_time, line,
                   output, queue, child, child_rc, child_lines, last_write, pipe>>
    /\ UNCHANGED w_start
    /\ UNCHANGED nonwait

NextWait == wait_start \/ wait_result \/ wait_timeout

NextSupervise == NextInstaller \/ NextWait

(***************************************************************************)
(* The build selection of setup_quilt (src/app.py:3822-3869).              *)
(***************************************************************************)
nonqb == <<prevvars, fanvars, supvars, plvars, relvars, savevars, findvars>>

\* b.get('loader'), and what projectVersionId is like: whether it holds 'fabric'
\* and whether it matches loader_version
BuildLoaders == {"QUILT", "FABRIC"}
ProjectVersions == [fabric : BOOLEAN, matches : BOOLEAN]
Builds == [loader : BuildLoaders, projectVersionId : ProjectVersions]
NoBuild == [loader |-> None, projectVersionId |-> [fabric |-> FALSE, matches |-> FALSE]]

\* 3853: the build is taken for a Fabric build
IsFabricBuild(b) == b.loader = "FABRIC" \/ b.projectVersionId.fabric

\* 3847-3861: the first build that is not Fabric and matches loader_version
RECURSIVE MatchingBuild(_)
MatchingBuild(bl) ==
    IF bl = <<>> THEN NoBuild
    ELSE IF ~IsFabricBuild(Head(bl)) /\ Head(bl).projectVersionId.matches THEN Head(bl)
    ELSE MatchingBuild(Tail(bl))

\* 3863-3866: without a match, builds_list[0]
SelectBuild(bl) ==
    IF MatchingBuild(bl) # NoBuild THEN MatchingBuild(bl) ELSE bl[1]

InitBuilds ==
    /\ qb_pc = "idle"
    /\ builds_list = <<>>
    /\ qb_build = NoBuild

\* 3812-3840: the API answers with a list of builds
quilt_builds ==
    /\ qb_pc = "idle"
    /\ builds_list' \in UNION {[1..k -> Builds] : k \in 0..MaxBuilds}
    /\ qb_pc' = "listed"
    /\ UNCHANGED qb_build
    /\ UNCHANGED nonqb

\* 3842-3869: an empty list is an error; otherwise a build is selected
quilt_select ==
    /\ qb_pc = "listed"
    /\ IF builds_list = <<>>
         THEN qb_pc' = "failed" /\ UNCHANGED qb_build
         ELSE /\ qb_build' = SelectBuild(builds_list)
              /\ qb_pc' = IF qb_build' = NoBuild THEN "failed" ELSE "selected"
    /\ UNCHANGED builds_list
    /\ UNCHANGED nonqb

\* The call is over.
quilt_builds_return ==
    /\ qb_pc \in {"selected", "failed"}
    /\ qb_pc' = "idle"
    /\ builds_list' = <<>>
    /\ qb_build' = NoBuild
    /\ UNCHANGED nonqb

NextBuilds == quilt_builds \/ quilt_select \/ quilt_builds_return

(***************************************************************************)
(* The stages of one generate_server run after the server directory was    *)
(* made (src/app.py:2332-2404).                                            *)
(***************************************************************************)
nonpl == <<prevvars, fanvars, supvars, qbvars, relvars, savevars, findvars>>

Stages == <<"mods", "provision", "count", "zip", "status">>
StageNo(st) == CHOOSE i \in 1..Len(Stages) : Stages[i] = st
LaterStages(st) == {Stages[i] : i \in (StageNo(st) + 1)..Len(Stages)}

InitPipeline ==
    /\ pl_pc = "idle"
    /\ pl_loader = None
    /\ pl_failed_mods = 0
    /\ stages_started = {}
    /\ stages_done = {}
    /\ stage_failed = None
    /\ pl_ready = FALSE
    /\ pl_status = 0

\* what follows a stage: the next one, or the answer 500 of its except branch
AfterStage_regardless(st, ok) == Stages[StageNo(st) + 1]
AfterStage(st, ok) == IF ok THEN Stages[StageNo(st) + 1] ELSE "responded"

\* a stage has run and has returned (ok) or raised
Ran(st, ok) ==
    /\ stages_started' = stages_started \cup {st}
    /\ stages_done' = IF ok THEN stages_done \cup {st} ELSE stages_done
    /\ stage_failed' = IF ok \/ stage_failed # None THEN stage_failed ELSE st
    /\ pl_pc' = AfterStage(st, ok)
    /\ pl_status' = IF ok THEN pl_status ELSE 500

\* 2309-2330: the loader is detected and the server directory made
pipeline_start ==
    /\ pl_pc = "idle"
    /\ pl_loader' \in {"fabric", "forge", "quilt", "neoforge"}
    /\ pl_pc' = "mods"
    /\ UNCHANGED <<pl_failed_mods, stages_started, stages_done, stage_failed, pl_ready,
                   pl_status>>
    /\ UNCHANGED nonpl

\* 2332-2342: the mods are downloaded and the overrides copied; single mods may
\* fail without failing the phase
pipeline_mods ==
    /\ pl_pc = "mods"
    /\ \E ok \in BOOLEAN, n \in 0..MaxTasks :
        /\ Ran("mods", ok)
        /\ pl_failed_mods' = n
    /\ UNCHANGED <<pl_loader, pl_ready>>
    /\ UNCHANGED nonpl

\* 2343-2377: the provisioner of loader_type
pipeline_provision ==
    /\ pl_pc = "provision"
    /\ \E ok \in BOOLEAN : Ran("provision", ok)
    /\ UNCHANGED <<pl_loader, pl_failed_mods, pl_ready>>
    /\ UNCHANGED nonpl

\* 2378-2380: increment_generated_server_count returns a count also when it could
\* not write it (759-763)
pipeline_count ==
    /\ pl_pc = "count"
    /\ Ran("count", TRUE)
    /\ UNCHANGED <<pl_loader, pl_failed_mods, pl_ready>>
    /\ UNCHANGED nonpl

\* 2382-2392: build_zip_to_tempfile
pipeline_zip ==
    /\ pl_pc = "zip"
    /\ \E ok \in BOOLEAN : Ran("zip", ok)
    /\ UNCHANGED <<pl_loader, pl_failed_mods, pl_ready>>
    /\ UNCHANGED nonpl

\* 2394-2404: download_status[request_id] is set and 200 is answered
pipeline_status ==
    /\ pl_pc = "status"
    /\ stages_started' = stages_started \cup {"status"}
    /\ stages_done' = stages_done \cup {"status"}
    /\ pl_ready' = TRUE
    /\ pl_status' = 200
    /\ pl_pc' = "responded"
    /\ UNCHANGED <<pl_loader, pl_failed_mods, stage_failed>>
    /\ UNCHANGED nonpl

\* The answer is sent; the next request starts from scratch.
pipeline_end ==
    /\ pl_pc = "responded"
    /\ pl_pc' = "idle"
    /\ pl_loader' = None
    /\ pl_failed_mods' = 0
    /\ stages_started' = {}
    /\ stages_done' = {}
    /\ stage_failed' = None
    /\ pl_ready' = FALSE
    /\ pl_status' = 0
    /\ UNCHANGED nonpl

NextPipeline ==
    \/ pipeline_start \/ pipeline_mods \/ pipeline_provision \/ pipeline_count
    \/ pipeline_zip \/ pipeline_status \/ pipeline_end

(***************************************************************************)
(* What a request holds, and what releases it: delayed_cleanup             *)
(* (src/app.py:1119-1154), started by download_zip (1875-1885), and the    *)
(* periodic cleanup_old_log_buffers (1156-1196).  The clock counts cleanup *)
(* delays.                                                                 *)
(***************************************************************************)
nonrel == <<prevvars, fanvars, supvars, qbvars, plvars, savevars, findvars>>

InitRelease ==
    /\ rel_state = [r \in Requests |-> "none"]
    /\ rel_dir = [r \in Requests |-> FALSE]
    /\ rel_buf = [r \in Requests |-> Absent]
    /\ rel_lock = [r \in Requests |-> FALSE]
    /\ rel_status = [r \in Requests |-> FALSE]
    /\ rel_due = [r \in Requests |-> Missing]
    /\ rel_now = 0

\* 2169-2174: stream_logs is subscribed to before anything was logged
rel_subscribe(r) ==
    /\ rel_state[r] = "none"
    /\ ~rel_lock[r]
    /\ rel_lock' = [rel_lock EXCEPT ![r] = TRUE]
    /\ rel_buf' = [rel_buf EXCEPT ![r] = Entry(0)]
    /\ UNCHANGED <<rel_state, rel_dir, rel_status, rel_due, rel_now>>
    /\ UNCHANGED nonrel

\* 2266-2297: generate_server accepts the upload, makes lock and buffer and logs
\* its first line
rel_accept(r) ==
    /\ rel_state[r] = "none"
    /\ rel_state' = [rel_state EXCEPT ![r] = "running"]
    /\ rel_lock' = [rel_lock EXCEPT ![r] = TRUE]
    /\ rel_buf' = [rel_buf EXCEPT ![r] = Entry(1)]
    /\ UNCHANGED <<rel_dir, rel_status, rel_due, rel_now>>
    /\ UNCHANGED nonrel

\* 2299-2412: the run ends: with the server directory and download_status set
\* (2394-2395), or with an error before or after the directory was made (2329)
rel_finish(r) ==
    /\ rel_state[r] = "running"
    /\ \/ /\ rel_state' = [rel_state EXCEPT ![r] = "ready"]
          /\ rel_dir' = [rel_dir EXCEPT ![r] = TRUE]
          /\ rel_status' = [rel_status EXCEPT ![r] = TRUE]
       \/ /\ rel_state' = [rel_state EXCEPT ![r] = "failed"]
          /\ \E made \in BOOLEAN : rel_dir' = [rel_dir EXCEPT ![r] = made]
          /\ UNCHANGED rel_status
    /\ UNCHANGED <<rel_buf, rel_lock, rel_due, rel_now>>
    /\ UNCHANGED nonrel

\* 1824-1885: the result is downloaded; delayed_cleanup is started
rel_download(r) ==
    /\ rel_state[r] \in {"ready", "failed"}
    /\ rel_dir[r]
    /\ rel_now + 1 <= MaxRelTime
    /\ rel_state' = [rel_state EXCEPT ![r] = "downloaded"]
    /\ rel_status' = [rel_status EXCEPT ![r] = TRUE]
    /\ rel_due' = [rel_due EXCEPT ![r] = rel_now + 1]
    /\ UNCHANGED <<rel_dir, rel_buf, rel_lock, rel_now>>
    /\ UNCHANGED nonrel

\* 1121-1152: after the delay the directory, the status entry, the buffer and the
\* lock go
rel_delayed_cleanup(r) ==
    /\ rel_state[r] = "downloaded"
    /\ rel_due[r] <= rel_now
    /\ rel_state' = [rel_state EXCEPT ![r] = "cleaned"]
    /\ rel_dir' = [rel_dir EXCEPT ![r] = FALSE]
    /\ rel_due' = [rel_due EXCEPT ![r] = Missing]
    /\ IF rel_lock[r]
         THEN /\ rel_status' = [rel_status EXCEPT ![r] = FALSE]
              /\ rel_buf' = [rel_buf EXCEPT ![r] = Absent]
              /\ rel_lock' = [rel_lock EXCEPT ![r] = FALSE]
         ELSE UNCHANGED <<rel_status, rel_buf, rel_lock>>
    /\ UNCHANGED rel_now
    /\ UNCHANGED nonrel

\* 1170-1180: a buffer goes when it is empty and the request has no status entry
Stale(r) == rel_lock[r] /\ Has(rel_buf[r]) /\ Val(rel_buf[r]) = 0 /\ ~rel_status[r]

\* 1156-1185: one round of the periodic cleanup
cleanup_old_log_buffers ==
    /\ rel_buf' = [r \in Requests |-> IF Stale(r) THEN Absent ELSE rel_buf[r]]
    /\ rel_lock' = [r \in Requests |-> IF Stale(r) THEN FALSE ELSE rel_lock[r]]
    /\ UNCHANGED <<rel_state, rel_dir, rel_status, rel_due, rel_now>>
    /\ UNCHANGED nonrel

\* Time passes, but not past a cleanup that is due.
rel_tick ==
    /\ rel_now < MaxRelTime
    /\ \A r \in Requests : rel_due[r] = Missing \/ rel_due[r] > rel_now
    /\ rel_now' = rel_now + 1
    /\ UNCHANGED <<rel_state, rel_dir, rel_buf, rel_lock, rel_status, rel_due>>
    /\ UNCHANGED nonrel

request_life(r) ==
    \/ rel_subscribe(r) \/ rel_accept(r) \/ rel_finish(r) \/ rel_download(r)
    \/ rel_delayed_cleanup(r)

NextRelease == (\E r \in Requests : request_life(r)) \/ cleanup_old_log_buffers \/ rel_tick

(***************************************************************************)
(* save_server_count (src/app.py:765-819), run at exit (834) by the worker *)
(* of caller "b1" once its own increment is over, next to the increments   *)
(* of the other worker.                                                    *)
(***************************************************************************)
nonsave == <<oldvars, cachevars, gsvars, namevars, zipvars, packvars, lkvars, artvars,
             fanvars, supvars, qbvars, plvars, relvars, findvars>>

InitSave ==
    /\ sv_pc = "idle"
    /\ sv_count = 0

\* 698-703: generated_server_count = new_count, as the worker's own increment left it;
\* 803: open(count_file_path, "w") truncates the file
save_open ==
    /\ sv_pc = "idle"
    /\ kpc["b1"] = "done"
    /\ sv_count' = new_count["b1"]
    /\ count_file' = Entry(Missing)
    /\ sv_pc' = "opened"
    /\ UNCHANGED <<kpc, generated_server_lock, file_lock, current_count, new_count>>
    /\ UNCHANGED nonsave

\* 804-814: the lock is tried without waiting; with it the in-memory count is
\* written, without it nothing is
save_write ==
    /\ sv_pc = "opened"
    /\ count_file' = IF file_lock = None THEN Entry(sv_count) ELSE count_file
    /\ sv_pc' = "done"
    /\ UNCHANGED sv_count
    /\ UNCHANGED <<kpc, generated_server_lock, file_lock, current_count, new_count>>
    /\ UNCHANGED nonsave

save_server_count == save_open \/ save_write

NextCountSave == NextCount \/ save_server_count

(***************************************************************************)
(* The directory search of download_zip (src/app.py:1820-1846) among the   *)
(* server directories two generate_server runs have made.                  *)
(***************************************************************************)
nonfind == <<prevvars, fanvars, supvars, qbvars, plvars, relvars, savevars>>

\* sub in str
Contains(sub, str) ==
    \E i \in 0..(Len(str) - Len(sub)) : SubSeq(str, i + 1, i + Len(sub)) = sub
\* str.endswith(sub)
EndsWith(str, sub) ==
    Len(str) >= Len(sub) /\ SubSeq(str, Len(str) - Len(sub) + 1, Len(str)) = sub

Suffix == <<"-", "M", "S", "F", "G">>

\* 1831-1834: the tests a directory name must pass
DirMatches(request_id, d) ==
    /\ EndsWith(d, Suffix) /\ Contains(request_id, d)
    /\ Contains(<<"-">> \o request_id \o Suffix, d) \/ d = request_id \o Suffix

\* 1829-1839: the first directory of the listing that passes
RECURSIVE FindServerDir(_, _)
FindServerDir(request_id, listing) ==
    IF listing = <<>> THEN <<>>
    ELSE IF DirMatches(request_id, Head(listing)) THEN Head(listing)
    ELSE FindServerDir(request_id, Tail(listing))

InitFind ==
    /\ dz_request_id = <<>>
    /\ dz_listing = <<>>
    /\ dz_created = {}
    /\ dz_server_dir = <<>>

\* 1813-1846: a download for the request_id of one of the two runs, with the
\* directories listed in either order
download_find ==
    /\ n_pc = 2
    /\ dz_listing = <<>>
    /\ \E id \in {req1.request_id, req2.request_id}, listing \in {<<dir1, dir2>>, <<dir2, dir1>>} :
        /\ dz_request_id' = id
        /\ dz_listing' = listing
        /\ dz_created' = {ServerDirName(r.safe_name, r.request_id) :
                            r \in {q \in {req1, req2} : q.request_id = id}}
        /\ dz_server_dir' = FindServerDir(id, listing)
    /\ UNCHANGED namevars
    /\ UNCHANGED <<oldvars, cachevars, gsvars, zipvars, cntvars, packvars, lkvars, artvars>>
    /\ UNCHANGED <<fanvars, supvars, qbvars, plvars, relvars, savevars>>

\* The download is answered and both requests are over.
find_reset ==
    /\ n_pc = 2
    /\ dz_listing # <<>>
    /\ n_pc' = 0
    /\ req1' = NoRequest
    /\ req2' = NoRequest
    /\ dir1' = <<>>
    /\ dir2' = <<>>
    /\ dz_request_id' = <<>>
    /\ dz_listing' = <<>>
    /\ dz_created' = {}
    /\ dz_server_dir' = <<>>
    /\ UNCHANGED <<oldvars, cachevars, gsvars, zipvars, cntvars, packvars, lkvars, artvars>>
    /\ UNCHANGED <<fanvars, supvars, qbvars, plvars, relvars, savevars>>

NextFind == name_first \/ name_second \/ download_find \/ find_reset

Init == InitLog /\ InitVal /\ InitInstaller /\ InitProv /\ InitDownload /\ InitBatch
        /\ InitCache /\ InitGenerate /\ InitName /\ InitCount /\ InitZip /\ InitPack
        /\ InitLocks /\ InitArt /\ InitFan /\ InitWait
        /\ InitBuilds /\ InitPipeline /\ InitRelease /\ InitSave
        /\ InitFind

\* Producers only: any interleaving of push_log calls on one request_id.
SpecPush == Init /\ [][NextPush]_vars

\* validate_request_id applied to every string of the bounded alphabet.
SpecValidate == Init /\ [][NextValidate]_vars

\* run_installer supervising one child process, with the clock.
SpecInstaller == Init /\ [][NextInstaller]_vars

\* One provisioner call per request, for every loader.
SpecProvision == Init /\ [][NextProvision]_vars

\* Calls of the two downloaders, one after the other.
SpecDownload == Init /\ [][NextDownload]_vars

\* One request's mod download batch, copy and provisioning.
SpecBatch == Init /\ [][NextBatch]_vars

\* Lookups and concurrent saves on the Forge cache, with the disk and the clock.
SpecCache == Init /\ [][NextCache]_vars

\* One generate_server request after the other.
SpecGenerate == Init /\ [][NextGenerate]_vars

\* Two requests get their server directory names.
SpecName == Init /\ [][NextName]_vars

\* One call of each user of the locks, interleaved.
SpecLocks == Init /\ [][NextLocks]_vars

\* run_installer, its child and the provisioner that waits for them.
SpecSupervise == Init /\ [][NextSupervise]_vars

\* setup_quilt selects a build from every list the API can return.
SpecBuilds == Init /\ [][NextBuilds]_vars

\* The stages of generate_server, each succeeding or failing.
SpecPipeline == Init /\ [][NextPipeline]_vars

\* Requests, their downloads and the two cleanups.  The cleanup threads and the
\* clock keep running; nothing makes a client download.
SpecRelease == Init /\ [][NextRelease]_vars
FairRelease ==
    /\ SpecRelease
    /\ WF_vars(cleanup_old_log_buffers)
    /\ WF_vars(rel_tick)
    /\ \A r \in Requests : WF_vars(rel_finish(r)) /\ WF_vars(rel_delayed_cleanup(r))

\* The increments of two workers and the save of one that shuts down.
SpecCountSave == Init /\ [][NextCountSave]_vars

\* Two runs name their directories and a download looks for one of them.
SpecFind == Init /\ [][NextFind]_vars

\* The mod downloads of one request.
SpecFan == Init /\ [][NextFan]_vars

\* Two provisioning requests share the cache directory.
SpecArt == Init /\ [][NextArt]_vars

\* Directories are packaged.
SpecPack == Init /\ [][NextPack]_vars

\* Downloads of one generated server, and its cleanup.
SpecZip == Init /\ [][NextZip]_vars

\* Three provisioning runs, in two worker processes, count themselves.
SpecCount == Init /\ [][NextCount]_vars

\* A subscription while the request is active.
SpecStream == Init /\ [][NextStream]_vars

\* The same, with every thread scheduled again and again.
FairStream == SpecStream /\ WF_vars(generate) /\ \A p \in Producers : WF_vars(push_log(p))

\* The whole log channel: two producers (the second pushes LinesSecondProducer
\* lines), one subscriber, the delayed cleanup.
SpecLog == Init /\ [][NextLog]_vars

(***************************************************************************)
(* C1: push_log under concurrency loses no writes and keeps the cap: once  *)
(* every push_log call of every producer has returned, the buffer holds    *)
(* exactly the min(T, cap) most recently appended of the T lines appended, *)
(* in append order (so each producer's lines in that producer's order).    *)
(***************************************************************************)
Quiescent == \A p \in Producers : ppc[p] = "idle"

C1_NoLostWrites ==
    Quiescent =>
        /\ Has(log_buffers) \/ appended = <<>>
        /\ Val(BufGetItem(log_buffers)) = LastN(appended, LogCap)

(***************************************************************************)
(* C2: the channel of a request is UNCREATED -> ACTIVE -> RELEASED with    *)
(* RELEASED terminal: once delayed_cleanup has removed the buffer and the  *)
(* lock entry of the request_id, neither entry exists again.               *)
(***************************************************************************)
C2_ReleasedIsTerminal ==
    released => ~Has(log_locks) /\ ~Has(log_buffers)

(***************************************************************************)
(* C3: a subscriber first receives the lines its first read finds in the   *)
(* buffer and then lines appended later, in buffer order: no line is       *)
(* delivered twice, and no line is delivered before a line that precedes   *)
(* it in the buffer (or in the order of appending).                        *)
(***************************************************************************)
NoDup(seq) == \A i, j \in 1..Len(seq) : seq[i] = seq[j] => i = j
Pos(seq, x) == CHOOSE i \in 1..Len(seq) : seq[i] = x
InSeq(seq, x) == \E i \in 1..Len(seq) : seq[i] = x
\* a and b keep in seq the order they have in ref, when both occur in ref
SameOrder(seq, ref) ==
    \A i, j \in 1..Len(seq) :
        (i < j /\ InSeq(ref, seq[i]) /\ InSeq(ref, seq[j]))
            => Pos(ref, seq[i]) < Pos(ref, seq[j])
Prefix(a, b) == Len(a) <= Len(b) /\ SubSeq(b, 1, Len(a)) = a

FirstReadDone == gpc \in {"g_first_release", "g_loop", "g_poll_lookup", "g_poll_acquire",
                          "g_poll_read", "g_poll_release", "g_poll_send", "g_done"}

C3_StreamOrder ==
    /\ NoDup(delivered)
    /\ \A i \in 1..Len(delivered) : InSeq(appended, delivered[i])
    /\ SameOrder(delivered, appended)
    /\ SameOrder(delivered, Val(BufGetItem(log_buffers)))
    /\ FirstReadDone => Prefix(snapshot, delivered)

\* The subscriber found lines at its first read and got a later line from a poll.
C3_Witness ==
    /\ gpc = "g_loop"
    /\ Len(snapshot) >= 1
    /\ Len(delivered) > Len(snapshot)

(***************************************************************************)
(* C4: validate_request_id accepts a string if and only if it matches      *)
(* ^[a-zA-Z0-9_-]{1,100}$ in full: 1..100 characters, all of them letters, *)
(* digits, '_' or '-'; every other string is rejected with an error.       *)
(***************************************************************************)
WellFormedId(str) ==
    /\ Len(str) >= 1
    /\ Len(str) <= MaxRequestIdLen
    /\ \A i \in 1..Len(str) : IdChar(str[i])

Accepted == v_result[2] = None

C4_ValidateIff ==
    vpc = "returned" => (Accepted <=> WellFormedId(v_request_id))

(***************************************************************************)
(* C5: a child that has produced no output for longer than                 *)
(* NO_OUTPUT_TIMEOUT while still running is terminated by run_installer,   *)
(* which puts the failure result on the queue within NO_OUTPUT_TIMEOUT     *)
(* plus a small epsilon (here one step of the clock) of the last output    *)
(* line: no running child is silent for longer than that.                  *)
(***************************************************************************)
C5_StuckDetected ==
    (child = "running" /\ now - last_write > NO_OUTPUT_TIMEOUT + TickSeconds)
        => HasResult(queue)

(***************************************************************************)
(* C6: whenever a loader provisioner returns without raising,              *)
(* server_dir/server.jar exists and is non-empty -- also on the Forge and  *)
(* Quilt paths where the artifact is a ZIP holding no server.jar.          *)
(***************************************************************************)
C6_ServerJarOnSuccess ==
    prov_state = "returned" =>
        /\ Exists(server_dir, "server.jar")
        /\ server_dir["server.jar"] # EmptyFile

(***************************************************************************)
(* C7: when download_to_file or async_download_to_file fails, no file      *)
(* exists at the destination when the error reaches the caller; for a      *)
(* declared Content-Length above max_size nothing was written.             *)
(***************************************************************************)
LastOutcome == dl_outcomes[Len(dl_outcomes)]

Validation(o) == o \in {"invalid_url", "declared_oversize", "stream_oversize"}
RetryLines(log) == Cardinality({i \in 1..Len(log) : log[i][1] = "Retrying download"})

C8_ValidationNotRetried ==
    dl_fn = "download_to_file" =>
        /\ \A i \in 1..Len(dl_outcomes) :
              Validation(dl_outcomes[i]) => i = Len(dl_outcomes) /\ dl_pc = "raised"
        /\ url \in {"empty", "malformed", "nonhttp"} =>
              /\ Len(dl_outcomes) <= 1
              /\ dl_waits = <<>>
              /\ RetryLines(dl_log) = 0

(***************************************************************************)
(* C9: a transient transport failure on attempt 1 and success on attempt 2 *)
(* leave the file with the content of attempt 2, one 'Retrying download'   *)
(* line and no third attempt; at most `retries` attempts are made, with a  *)
(* wait of 2^(k-2) seconds before attempt k.                               *)
(***************************************************************************)
C9_RetryThenSuccess ==
    dl_fn = "download_to_file" =>
        /\ Len(dl_outcomes) <= retries
        /\ Len(dl_waits) = IF dl_outcomes = <<>> THEN 0 ELSE Len(dl_outcomes) - 1
        /\ \A k \in 2..Len(dl_outcomes) : dl_waits[k - 1] = 2 ^ (k - 2)
        /\ RetryLines(dl_log) = Len(dl_waits)
        /\ dl_outcomes = <<"transport", "ok">> =>
              /\ dl_pc = "returned"
              /\ dest = Entry([by |-> 2, chunks |-> dl_served[2]])
              /\ RetryLines(dl_log) = 1

C9_Witness ==
    /\ dl_fn = "download_to_file"
    /\ retries = MaxRetries
    /\ dl_outcomes = <<"transport", "ok">>
    /\ dl_served = <<2, 1>>
    /\ dl_pc = "returned"

(***************************************************************************)
(* C10: in the parallel batch a failed download never cancels or prevents  *)
(* its siblings: when gather is over every task has ended by itself, the   *)
(* failure count is the number of tasks that raised, and the request goes  *)
(* on to the override copy and the provisioner whatever that number is.    *)
(***************************************************************************)
C10_BatchBestEffort ==
    /\ b_pc \in {"copy", "provision", "success", "error500"} =>
          /\ \A i \in 1..Len(tasks) : Terminal(tasks[i])
          /\ failed = Cardinality(Raised(tasks))
    /\ b_pc = "error500" => b_cause \in {"copy", "provision"}

\* the provisioner is reached although every download of the batch failed
C10_Witness ==
    /\ b_pc = "provision"
    /\ Len(tasks) >= 2
    /\ failed = Len(tasks)

(***************************************************************************)
(* C11: _get_forge_from_cache returns an entry iff the key is registered,  *)
(* its file exists, its age is below FORGE_CACHE_MAX_AGE and the size on   *)
(* disk equals the recorded size; a save that stored its entry, directly   *)
(* followed by a lookup of the same key, returns that entry.               *)
(***************************************************************************)
C11_LookupIff ==
    /\ last_op.op = "get" =>
          (Has(last_op.result) <=>
              last_op.registered /\ last_op.exists /\ last_op.fresh /\ last_op.size_ok)
    /\ \A v \in Versions :
          (last_op.op = "save" /\ last_op.version = v /\ last_op.clean) =>
              /\ forge_cache_lock = None
              /\ Has(forge_cache[v])
              /\ Has(cache_files[v])
              /\ Val(cache_files[v]) = Val(forge_cache[v]).size
              /\ Fresh(cache_now - Val(forge_cache[v]).timestamp)

\* a lookup missed only because the entry was too old
C11_Witness ==
    /\ last_op.op = "get"
    /\ last_op.registered /\ last_op.exists /\ last_op.size_ok /\ ~last_op.fresh
    /\ ~Has(last_op.result)

(***************************************************************************)
(* C12: every lookup that misses because the entry is stale (file deleted  *)
(* out-of-band, size changed, too old) evicts it: right after the lookup   *)
(* the key is no longer in the cache metadata.                             *)
(***************************************************************************)
C12_StaleMissEvicts ==
    (last_op.op = "get" /\ last_op.registered /\ ~Has(last_op.result)) =>
        ~Has(forge_cache[last_op.version])

(***************************************************************************)
(* C13: the sum of the recorded sizes of all cache entries never exceeds   *)
(* FORGE_CACHE_MAX_SIZE, also with concurrent _save_forge_to_cache calls.  *)
(***************************************************************************)
C13_CacheCeiling == TotalCacheSize(forge_cache) <= CacheMaxSize

(***************************************************************************)
(* C14: every failure of a loader provisioner reaches generate_server as a *)
(* structured error (a JSON object with error code, message and            *)
(* manual-download link); none escapes as a raw exception.                 *)
(***************************************************************************)
C14_FailuresAreStructured ==
    prov_state = "raised" => prov_exc.json /\ ResponseBody(prov_exc) = "error_data"

(***************************************************************************)
(* C15: after any successful provisioner run server_dir/eula.txt exists    *)
(* with content exactly 'eula=false\n', also when the overrides or the     *)
(* extracted ZIP brought an eula.txt with other content.                   *)
(***************************************************************************)
C15_EulaNeverAccepted ==
    prov_state = "returned" =>
        Exists(server_dir, "eula.txt") /\ server_dir["eula.txt"] = EulaFalse

\* the ZIP bundle that ships its own eula.txt was extracted
C15_Witness ==
    /\ prov_state = "returned"
    /\ prov_path \in {"zip", "cache_zip"}
    /\ Exists(server_dir, "forge.jar")
    /\ server_dir["eula.txt"] = EulaFalse

(***************************************************************************)
(* C20: JAR selection never picks a launcher/installer/client JAR while    *)
(* another candidate exists, and a name containing 'server' wins over      *)
(* names without a preferred marker.                                       *)
(***************************************************************************)
Excluded(f) == HasLaunch(f) \/ HasInstaller(f) \/ HasClient(f)
Listed(jf) == {jf[i] : i \in 1..Len(jf)}

C20_JarSelection ==
    sel_jar_files # <<>> =>
        LET good == {f \in Listed(sel_jar_files) : ~Excluded(f)}
        IN  /\ good # {} => sel_target_jar \in good
            /\ (\E f \in good : HasServer(f)) => Preferred(prov_loader, sel_target_jar)

\* the example of the specification, for setup_fabric
C20_Witness ==
    /\ prov_loader = "fabric"
    /\ Listed(sel_jar_files) = {"minecraft_server.jar", "client.jar", "libs.jar"}
    /\ sel_target_jar = "minecraft_server.jar"

(***************************************************************************)
(* C16: an index whose dependencies hold none of fabric-loader, forge,     *)
(* quilt-loader, neoforge makes generate_server fail with a 'no loader     *)
(* detected' classification, before any download is started and before    *)
(* the server directory is created.                                        *)
(***************************************************************************)
NoLoaderDeclared(d) == d \cap {"fabric-loader", "forge", "quilt-loader", "neoforge"} = {}

C16_NoLoaderClassified ==
    (gs_pc = "responded" /\ response.status = 500 /\ loader_type = None
        /\ upload.archive_ok /\ NoLoaderDeclared(deps)) =>
        /\ response.error = "no loader detected"
        /\ ~server_dir_created
        /\ ~downloads_started

C18_DirNameUnique ==
    (n_pc = 2 /\ (req1.request_id # req2.request_id \/ req1.safe_name # req2.safe_name)) =>
        dir1 # dir2

(***************************************************************************)
(* C19: GeneratedServerCount is incremented atomically: when K runs call   *)
(* increment_generated_server_count concurrently, in one process or in     *)
(* several workers sharing the count file, the persisted count ends        *)
(* exactly K higher than it started.                                       *)
(***************************************************************************)
C19_NoLostIncrement ==
    (\A c \in Callers : kpc[c] = "done") => count_file = Entry(Cardinality(Callers))

AllPlain == \A i \in 1..Len(pk_files) : pk_files[i].kind = "plain"

RECURSIVE SumFileSizes(_)
SumFileSizes(files) ==
    IF files = <<>> THEN 0 ELSE Head(files).size + SumFileSizes(Tail(files))

C23_AppendOnly ==
    [][(Has(log_buffers) /\ Val(log_buffers) # <<>>) =>
          /\ Has(log_buffers')
          /\ \/ Prefix(Val(log_buffers), Val(log_buffers'))
             \/ Val(log_buffers') = LastN(Val(log_buffers), LogCap)]_vars

(***************************************************************************)
(* C24: lazy creation never duplicates a lock: while the request is active *)
(* at most one Lock object is ever installed in log_locks, so two threads  *)
(* are never inside the buffer's critical section holding different locks. *)
(***************************************************************************)
Holders == {i \in 1..Len(locks) : locks[i] # None}

C24_OneLock ==
    /\ Len(locks) <= 1
    /\ Cardinality(Holders) <= 1

(***************************************************************************)
(* C25: live delivery is complete: every line appended to the buffer while *)
(* a subscriber is connected is delivered to it, also the lines appended   *)
(* after the buffer reached its cap and was truncated.  Checked at the end *)
(* of each poll: every line the buffer holds has been yielded or is among  *)
(* the lines about to be.                                                  *)
(***************************************************************************)
C25_LiveDelivery ==
    (gpc = "g_poll_release" /\ Has(log_buffers)) =>
        \A i \in 1..Len(Val(log_buffers)) :
            InSeq(delivered \o new_logs, Val(log_buffers)[i])

(***************************************************************************)
(* C26: no lock is held across a blocking I/O call and no lock is acquired *)
(* while another is held: a thread holds at most one of the locks and      *)
(* none when it starts a file, network, sleep or client-stream operation.  *)
(***************************************************************************)
C26_LockDiscipline ==
    \A t \in Threads :
        /\ Cardinality(Held(t)) <= 1
        /\ (Running(t) /\ NextOp(t)[1] = "io") => Held(t) = {}

(***************************************************************************)
(* C27: the lock users are deadlock-free: no interleaving reaches a state  *)
(* in which each of a set of threads waits for a lock held by another of   *)
(* them.                                                                   *)
(***************************************************************************)
Waiting(t) == Running(t) /\ NextOp(t)[1] = "acq" /\ lk_owner[NextOp(t)[2]] # None
Blocker(t) == lk_owner[NextOp(t)[2]]

C27_NoDeadlock ==
    ~ \E S \in SUBSET Threads :
        /\ S # {}
        /\ \A t \in S : Waiting(t) /\ Blocker(t) \in S

\* a thread waits for a lock whose holder holds a second lock and waits for a third
C27_Witness ==
    \E t \in Threads :
        /\ Waiting(t)
        /\ Cardinality(Held(Blocker(t))) >= 2
        /\ Waiting(Blocker(t))

(***************************************************************************)
(* C28: no partially written cache artifact is ever used: of two           *)
(* concurrent requests for the same version neither validates, extracts or *)
(* copies a cache file the other is still downloading.                     *)
(***************************************************************************)
C28_NoPartialArtifact ==
    \A r \in Requests : Has(a_used[r]) => Val(a_used[r]).writers = {}

(***************************************************************************)
(* C29: no artifact older than the cache's maximum age is used: a request  *)
(* that takes the file from the cache directory instead of downloading it  *)
(* finds it written less than FORGE_CACHE_MAX_AGE ago, also when the       *)
(* in-memory metadata has no entry for it.                                 *)
(***************************************************************************)
C29_NoStaleArtifact ==
    \A r \in Requests :
        (Has(a_used[r]) /\ ~a_dtc[r]) => Val(a_used[r]).age < CacheMaxAge

(***************************************************************************)
(* C30: cache entries are keyed by loader and version: a lookup made by    *)
(* setup_forge never returns an artifact setup_quilt stored, even when the *)
(* two version strings are equal.                                          *)
(***************************************************************************)
C30_KeyedByLoader ==
    \A r \in Requests :
        (a_loader[r] = "forge" /\ Has(a_used[r])) => Val(a_used[r]).loader = "forge"

(***************************************************************************)
(* C31: at most MAX_WORKERS_DOWNLOAD mod downloads of one request are in   *)
(* flight at any moment, however many mod entries the index lists.         *)
(***************************************************************************)
C31_BoundedInFlight ==
    Cardinality({i \in 1..Len(fan_tasks) : InFlight(fan_tasks[i])}) <= MaxWorkersDownload

(***************************************************************************)
(* C32: within one batch no two download tasks have the same destination   *)
(* path: entries whose names are equal, or become equal by sanitisation,   *)
(* result in at most one task for that path.                               *)
(***************************************************************************)
C32_OneTaskPerPath ==
    \A i, j \in 1..Len(fan_tasks) :
        fan_tasks[i].dest = fan_tasks[j].dest => i = j

(***************************************************************************)
(* C33: when an output line holds a success phrase, run_installer delivers *)
(* its result after the short grace delay without waiting for the child to *)
(* exit: one clock step after the phrase was read the result is on the     *)
(* queue, also when the child is still running.                            *)
(***************************************************************************)
SuccessSeen == output # <<>> /\ IsSuccessLine(output[Len(output)])

C33_ResultWithoutExit ==
    (SuccessSeen /\ now - last_output_time >= TickSeconds) => HasResult(queue)

(***************************************************************************)
(* C34: when a provisioner gives up on an installer because of a timeout   *)
(* (stuck, overall, or its own wait limit), the installer's child process  *)
(* is not running any more.                                                *)
(***************************************************************************)
TimedOut ==
    \/ w_pc = "w_raised"
    \/ /\ w_pc = "w_result"
       /\ \E i \in 1..Len(queue) : queue[i][1] = "RESULT" /\ queue[i][2] = -1
       /\ \E i \in 1..Len(output) : output[i] \in {"timed out", "timed out due to no output"}

C34_ChildTerminated == TimedOut => child # "running"

(***************************************************************************)
(* C35: JAR-selection tie-break: when more than one candidate left after   *)
(* exclusion has a preferred name, the one that comes first in the         *)
(* directory listing is selected; when none is left after exclusion the    *)
(* first entry of the listing is selected.                                 *)
(***************************************************************************)
PreferredAt(jf) == {i \in 1..Len(jf) : ~Excluded(jf[i]) /\ Preferred(prov_loader, jf[i])}
FirstOf(S) == CHOOSE i \in S : \A j \in S : i <= j

C35_FirstPreferredWins ==
    sel_jar_files # <<>> =>
        /\ Cardinality(PreferredAt(sel_jar_files)) > 1 =>
              sel_target_jar = sel_jar_files[FirstOf(PreferredAt(sel_jar_files))]
        /\ (\A f \in Listed(sel_jar_files) : Excluded(f)) =>
              sel_target_jar = sel_jar_files[1]

(***************************************************************************)
(* C36: setup_quilt never selects a build whose reported loader is Fabric: *)
(* the build used has no 'FABRIC' in its loader field and no 'fabric' in   *)
(* its project version, and when every entry is Fabric the provisioner     *)
(* fails instead of selecting one.                                         *)
(***************************************************************************)
C36_NeverFabric ==
    /\ qb_pc = "selected" => ~IsFabricBuild(qb_build)
    /\ (qb_pc \in {"selected", "failed"}
          /\ \A i \in 1..Len(builds_list) : IsFabricBuild(builds_list[i])) => qb_pc = "failed"

(***************************************************************************)
(* C37: the stages of one generate_server run are strictly ordered and     *)
(* fail fast: the provisioner starts only after the mod phase finished,    *)
(* the count increment and the ZIP build only after the provisioner        *)
(* returned, download_status is set ready only after the ZIP was built,    *)
(* and a failure in a stage keeps every later stage from running.          *)
(***************************************************************************)
C37_StagesInOrder ==
    /\ "provision" \in stages_started => "mods" \in stages_done
    /\ "count" \in stages_started => "provision" \in stages_done
    /\ "zip" \in stages_started => {"provision", "count"} \subseteq stages_done
    /\ pl_ready => "zip" \in stages_done
    /\ stage_failed # None =>
          /\ stages_started \cap LaterStages(stage_failed) = {}
          /\ ~pl_ready
          /\ pl_status = 500

\* a run that went through every stage, with failed mods on the way
C37_Witness ==
    /\ pl_pc = "responded"
    /\ pl_status = 200
    /\ pl_ready
    /\ pl_failed_mods > 0
    /\ stages_done = {"mods", "provision", "count", "zip", "status"}

(***************************************************************************)
(* C38: every request's resources are eventually released: for every       *)
(* accepted generate request the server directory and the log buffer and   *)
(* lock are eventually deleted, after a download and the cleanup delay or, *)
(* without a download or after a failed generation, after an abandonment   *)
(* timeout.                                                                *)
(***************************************************************************)
C38_EventuallyReleased ==
    \A r \in Requests :
        (rel_state[r] = "running") ~> (~rel_dir[r] /\ ~rel_lock[r] /\ ~Has(rel_buf[r]))

(***************************************************************************)
(* C39: the persisted generated-server count is monotonic: the integer in  *)
(* the count file never decreases across any sequence of                   *)
(* increment_generated_server_count and save_server_count calls by one or  *)
(* several workers, and the file is not left empty once nobody is writing. *)
(***************************************************************************)
Stored(f) == IF Has(f) /\ Val(f) # Missing THEN Val(f) ELSE Missing
Writing == sv_pc = "opened" \/ \E c \in Callers : kpc[c] \in {"lock", "write"}

C39_CountMonotonic ==
    [][/\ (Stored(count_file) # Missing /\ Stored(count_file') # Missing) =>
              Stored(count_file') >= Stored(count_file)
       /\ (Has(count_file') /\ ~Writing') => Stored(count_file') # Missing]_vars

(***************************************************************************)
(* C40: download_zip(request_id) serves only the server directory that     *)
(* generate_server created for exactly that request_id: with two distinct  *)
(* valid request ids, a download for one never selects the directory       *)
(* created for the other.                                                  *)
(***************************************************************************)
C40_OwnDirectoryOnly ==
    dz_server_dir # <<>> => dz_server_dir \in dz_created

====
